---------------------------- MODULE Spec2Model ----------------------------
(***************************************************************************)
(* ParaSAFE: the tick-barrier simulation clock, its clock-synchronised     *)
(* workers (state manager, controllers, dynamics integrator, event         *)
(* monitor), the state-update queue, the event bus and the controller      *)
(* manager's event callbacks.                                              *)
(*                                                                         *)
(* Units.  Doubles are modelled in fixed point:                            *)
(*   current_time, simulation_time : multiples of dt (0.01 s)              *)
(*   throttle, brake               : 1/1000                                *)
(*   velocity                      : micrometres per second                *)
(*   position                      : micrometres                           *)
(*   acceleration                  : millimetres per second squared        *)
(*   forces                        : newtons                               *)
(*                                                                         *)
(* A condition-variable wait  cv.wait(lock, pred)  is modelled in the      *)
(* steps the C++ library takes: the predicate is evaluated with the mutex  *)
(* held ("..._lock" -> "..._towait"), the thread then atomically releases  *)
(* the mutex and joins the wait set ("..._towait" -> "..._waiting"), and a *)
(* notify moves every thread of the wait set back to re-acquire the mutex  *)
(* and re-evaluate.  A notify issued without the mutex between the two     *)
(* steps finds the thread outside the wait set.                            *)
(***************************************************************************)
EXTENDS Integers, Sequences, FiniteSets, TLC

\* ------------------------------------------------------------------ bounds
\* Ticks the clock may publish in a run of the model.
MaxStep == 2
\* Times each worker object may be started from outside in a run of the model.
MaxStarts == 1
\* Calls of EventBus::publish made from outside the event monitor.
MaxPublish == 3
\* Calls of setFlightMode made by MODE actions of other event tables.
MaxModeCalls == 2
\* Calls of updateState in a run.
MaxCommits == 2
\* Calls of EventBus::subscribe after the controller manager's.
MaxSubscribe == 2
\* Calls of FileLogger::recordData in a run.
MaxRecords == 3
\* executions of an action list
MaxLists == 2

\* ------------------------------------------------------- program constants
\* ThrottleController_Increase: THROTTLE_INCREASE_RATE * FIXED_DT = 0.001.
THROTTLE_INC_STEP == 1
\* ControllerConfig::MAX_THROTTLE = 1.0, in 1/1000.
MAX_THROTTLE == 1000
\* THROTTLE_DECREASE_RATE * FIXED_DT = 0.2 * 0.01, in 1/1000.
THROTTLE_DEC_STEP == 2
\* BRAKE_RATE * FIXED_DT = 0.2 * 0.01, in 1/1000.
BRAKE_STEP == 2
\* MAX_BRAKE = 1.0, in 1/1000.
MAX_BRAKE == 1000
\* CRUISE_GAIN = 0.1 per m/s: one 1/1000 of throttle for 10000 um/s of error.
CRUISE_ERROR_PER_MILLE == 10000
\* target_velocity = 100.0 m/s, in um/s.
CRUISE_TARGET == 100000000
\* TaxiConfig::TARGET_SPEED = 100.0 m/s unless the configuration file sets it.
TARGET_SPEED == 100000000
\* SimulationControlThread: position > 1500.0 m ends the simulation (um).
POSITION_LIMIT == 1500000000
\* SimulationControlThread: simulation_time > 180.0 s, in steps of dt.
TIME_LIMIT == 18000
\* PitchHoldController: M_PI in 1/1000 rad.
PI_MILLI == 3142
\* INTEGRAL_LIMIT = 10.0, in 1/1000.
INTEGRAL_LIMIT == 10000
\* MAX_CONTROL_OUTPUT = 1.0 and MIN_CONTROL_OUTPUT = -1.0, in 1/1000.
MAX_CONTROL_OUTPUT == 1000
\* pid_kp{1.0}, pid_ki{0.1}, pid_kd{0.05}, in 1/100.
DefaultGains == [kp |-> 100, ki |-> 10, kd |-> 5]
\* AircraftConfig_FixedWin_AC1: mass (kg).
MASS == 80000
\* AircraftConfig_FixedWin_AC1: max thrust 500000 N, per 1/1000 of throttle.
THRUST_PER_MILLE == 500
\* AircraftConfig_FixedWin_AC1: max brake force (N).
MAX_BRAKE_FORCE == 400000
\* static_friction_coeff * mass * 9.81 = 0.02 * 80000 * 9.81 (N).
STATIC_FRICTION == 15696
\* |v| < 0.01 m/s is "at rest", in micrometres per second.
REST_VELOCITY == 10000
\* TaxiInitialState: position 30.0 m, in micrometres.
INITIAL_POSITION == 30000000
\* START_BRAKE: position >= 500.0 m, in micrometres.
BRAKE_POSITION == 500000000
\* ZERO_VELOCITY_THRESHOLD = 0.1 m/s, in micrometres per second.
ZERO_VELOCITY_THRESHOLD == 100000
\* 0.5 * AIR_DENSITY * FRONTAL_AREA * drag coefficient = 0.6125, in 1/10000.
DRAG_FACTOR == 6125
\* START_THROTTLE: simulation_time >= 1.0 s, in units of dt.
THROTTLE_START_TIME == 100
\* EventBus::MAX_WORKERS.
MAX_WORKERS == 4
\* EventBus::MAX_QUEUE_SIZE.
MAX_QUEUE_SIZE == 1000

\* ------------------------------------------------------------------- state
VARIABLES
    \* SimulationClock
    running,             \* std::atomic<bool> running
    paused,              \* std::atomic<bool> paused
    time_steps,          \* std::atomic<uint64_t> time_steps
    current_time,        \* std::atomic<double> current_time, in units of dt
    registered_threads,  \* std::atomic<int> registered_threads
    completed_threads,   \* std::atomic<int> completed_threads
    mtx,                 \* holder of SimulationClock::mtx, or "free"
    clk_pc,              \* position of the thread running SimulationClock::start
    stop_pc,             \* position of a thread running SimulationClock::stop
    \* workers
    wpc,                 \* position of each worker thread
    current_step,        \* each worker's local current_step
    thread_running,      \* each worker object's own running flag
    starts,              \* times each worker object was started from outside
    \* SharedStateSpace
    throttle,
    brake,
    velocity,
    position,
    acceleration,
    simulation_time,
    simulation_running,
    throttle_control_enabled,
    brake_control_enabled,
    cruise_control_enabled,
    flight_mode,
    control_auth,        \* ControlAuthority: pilot/auto x throttle/brake
    \* StateUpdateQueue and thread locals
    queue,               \* sequence of [type, value, tick]; tick is a history field
    local_throttle,      \* updateThrottle's current_throttle
    local_acceleration,  \* DynamicsModel::step's acceleration
    controller_local,    \* current_throttle (decrease), current_brake, current_velocity (cruise)
    \* EventBus
    event_queue,         \* std::queue<EventItem>: the event names
    bus_pc,              \* position of each bus worker thread
    bus_item,            \* the item each bus worker popped
    total_events,        \* event_stats[e].total_events
    dropped_events,      \* event_stats[e].dropped_events
    processed_events,    \* event_stats[e].processed_events
    call_mode,           \* the argument of the setFlightMode call each bus worker is in
    \* ControllerManagerThread
    triggered_events,    \* events whose triggered_events entry is true
    \* EventMonitorThread
    local_triggered_events, \* events whose local latch is true
    mon_todo,            \* events the for-loop of this tick has not visited yet
    \* history variables (not program state)
    lastDone,            \* tick for which each worker last called notifyStepCompleted
    wokeStopped,         \* the worker's last waitForNextStep returned with running = false
    bodyAfterStop,       \* a worker ran a step body after such a wake-up
    stopReturned,        \* some call of stop() has returned
    pausedInTick,        \* pause() was called while a registered worker had not completed the tick
    anyCompleted,        \* some worker has called notifyStepCompleted
    resumed,             \* resume() was called after a pause() and no pause() since
    committed,           \* the motion state at the instant the last tick was closed
    init_throttle,       \* the throttle of the initial SharedStateSpace
    exec_count,          \* times the action list of each event was executed
    fell,                \* the event's predicate was false at some time after its latch was set
    alone,               \* no other call of setFlightMode overlapped the worker's call so far
    mode_done,           \* calls of setFlightMode begun, and whether the last one to return ran alone
    reEvaluated,         \* the monitor evaluated the event with the latch set and the predicate true again
    \* SharedStateSpace: the snapshot mechanism
    current_state,       \* StateSnapshot current_state
    state_version,       \* std::atomic<uint64_t> state_version
    state_mutex,         \* "free" or the thread holding state_mutex
    snap_pc,             \* position of each thread calling updateState or getState
    snap_arg,            \* new_state, the argument of the updateState call each thread is in
    snap_local,          \* the StateSnapshot a getState call is building, then its return value
    \* history variables of the snapshot mechanism (not program state)
    update_calls,        \* calls of updateState begun and returned
    last_commit,         \* the argument of the last updateState call that returned
    seen,                \* the motion states the atomics went through during the getState call
    unwritten,           \* no store to a motion atomic since the last updateState returned
    \* EventBus: the callbacks
    subscribers,         \* subscribers[event]: the callbacks in the order of their subscription
    thrown,              \* history: the event of the last exception each bus worker caught
    \* FileLogger (times in 1/1000 s)
    last_time_,          \* double last_time_
    rec_mtx,             \* "free" or the thread holding mtx_
    rec_pc,              \* position of each thread calling recordData
    rec_arg,             \* data.at("time") of the call each thread is in
    rows,                \* the time column of the rows of output/data.csv, in 1/100 s as printed
    warnings,            \* history: warnings logged by recordData
    \* ControllerActionsConfig and executeControllerActions
    action_configs,      \* static std::map action_configs (NoConfig: no entry)
    config_loaded,       \* static bool config_loaded
    act_pc,              \* position of the thread inside executeControllerActions
    act_todo,            \* the actions of the list the for-loop has not finished
    act_rest,            \* stopAllControllers: the controllers not yet visited
    act_ctl,             \* the controller whose stop() is joining its thread
    act_calls,           \* history: calls of executeControllerActions begun
    act_log,             \* history: what the calls have done, in order
    \* EventBus: the mutex
    bus_mtx,             \* the bus worker holding EventBus::mtx, 0 when it is free
    \* SharedStateSpace: the fields the scenario sets up
    target_speed,        \* std::atomic<double> target_speed (um/s)
    \* PitchHoldController (angles in 1/1000 rad, gains in 1/100, terms in 1/1000)
    pid_kp,              \* std::atomic<double> pid_kp
    pid_ki,              \* std::atomic<double> pid_ki
    pid_kd,              \* std::atomic<double> pid_kd
    target_pitch_angle,  \* std::atomic<double> target_pitch_angle
    integral_error,      \* std::atomic<double> integral_error
    previous_error,      \* std::atomic<double> previous_error
    pitch_angle,         \* state.pitch_angle
    pitch_control_output,  \* state.pitch_control_output
    pitch_control_enabled, \* state.pitch_control_enabled
    pitch_local,         \* the locals of updatePitchControl and calculatePIDOutput
    pid_pc,              \* position of the thread inside setPIDParameters
    pid_arg,             \* the arguments of the setPIDParameters call in progress
    \* DataRecorderThread
    next_time,           \* double next_time, in steps of dt
    samples,             \* history: for each row written, its time and what was sampled
    \* main of the Taxi scenario, SimulationControlThread, ControllerManagerThread
    main_pc,             \* position of main
    ctl_pc,              \* position of the simulation control thread
    ctl_running,         \* SimulationControlThread::running
    ctl_paused,          \* SimulationControlThread::paused
    mgr_running,         \* ControllerManagerThread::running
    mgr_pc,              \* position of the controller manager's thread
    \* start() of a controller, called by the bus workers
    start_pc,            \* position of each bus worker inside startController
    start_arg,           \* the controller of the call each bus worker is in
    start_calls,         \* history: calls of startController begun by each bus worker
    joinable,            \* controller_thread.joinable() of each controller
    extra_registered,    \* history: registerThread() calls by further threads of a controller
    aborted              \* std::terminate has been called

clockVars == << running, paused, time_steps, current_time, registered_threads,
                completed_threads, mtx, clk_pc, stop_pc >>
workerVars == << wpc, current_step, thread_running, starts >>
\* The motion fields of SharedStateSpace.
motionVars == << throttle, brake, velocity, position, acceleration,
                 simulation_time >>
\* The control fields of SharedStateSpace.
controlVars == << simulation_running, throttle_control_enabled,
                  brake_control_enabled, cruise_control_enabled, flight_mode,
                  control_auth >>
localVars == << queue, local_throttle, local_acceleration, controller_local >>
dataVars == << motionVars, controlVars, localVars >>
busVars == << event_queue, bus_pc, bus_item, call_mode, total_events,
              dropped_events, processed_events, triggered_events >>
monVars == << local_triggered_events, mon_todo >>
clockHist == << lastDone, wokeStopped, bodyAfterStop, stopReturned,
                pausedInTick, anyCompleted, resumed, committed >>
eventHist == << init_throttle, exec_count, fell, reEvaluated, alone,
               mode_done >>
histVars == << clockHist, eventHist >>
\* Everything outside the clock, the workers and their data.
eventVars == << busVars, monVars, eventHist >>

snapVars == << current_state, state_version, state_mutex, snap_pc, snap_arg,
              snap_local, update_calls, last_commit >>
writeHist == << seen, unwritten >>

subVars == << subscribers, thrown >>
recVars == << last_time_, rec_mtx, rec_pc, rec_arg, rows, warnings >>
mutexVars == << bus_mtx >>
scenarioVars == << target_speed >>
rowVars == << next_time, samples >>
raceVars == << start_pc, start_arg, start_calls, joinable, extra_registered,
              aborted >>
shutdownVars == << main_pc, ctl_pc, ctl_running, ctl_paused, mgr_running,
                  mgr_pc >>
pitchVars == << pid_kp, pid_ki, pid_kd, target_pitch_angle, integral_error,
               previous_error, pitch_angle, pitch_control_output,
               pitch_control_enabled, pitch_local, pid_pc, pid_arg >>
listVars == << action_configs, config_loaded, act_pc, act_todo, act_rest,
               act_ctl, act_calls, act_log >>

vars == << clockVars, workerVars, dataVars, busVars, monVars, histVars,
           snapVars, writeHist, subVars, recVars, listVars, mutexVars,
           scenarioVars, pitchVars, rowVars, shutdownVars, raceVars >>

\* The clock-synchronised worker threads: the state manager, the
\* throttle-increase, throttle-decrease and brake controllers, the dynamics
\* integrator, the event monitor.
Workers == {"sm", "ti", "td", "br", "cr", "dyn", "mon", "ph", "rec"}
\* Workers that break out of their loop when isRunning() is false after the wait.
RecheckWorkers == {"sm", "dyn"}
\* The events of the Taxi scenario.
Events == {"START_THROTTLE", "START_BRAKE", "FINAL_STOP"}
\* The bus worker threads.
BusWorkers == 1..MAX_WORKERS
\* The threads calling SharedStateSpace::updateState and ::getState.
Updaters == {"u1", "u2"}
Getters == {"g1"}
\* The threads calling FileLogger::recordData.
Recorders == {"r1", "r2"}

\* ----------------------------------------------------------------- helpers
Min(a, b) == IF a < b THEN a ELSE b
Max(a, b) == IF a > b THEN a ELSE b
Abs(a) == IF a < 0 THEN -a ELSE a
\* Number of occurrences of x in the sequence q.
Count(q, x) == Cardinality({i \in 1..Len(q) : q[i] = x})

\* cv_step_start.notify_all(): every worker of the wait set re-acquires the
\* mutex and re-evaluates its predicate.
WakeStartWorkers(f) ==
    [w \in Workers |-> IF f[w] = "waiting" THEN "wait_lock" ELSE f[w]]

\* cv_step_start.notify_all() as seen by the clock thread (pause wait).
WakeStartClock(p) == IF p = "pause_waiting" THEN "pause_lock" ELSE p

\* cv_step_end.notify_*(): only the clock thread waits on cv_step_end.
WakeEndClock(p) == IF p = "barrier_waiting" THEN "barrier_lock" ELSE p

\* A worker between registerThread() and unregisterThread().
IsRegistered(w) == wpc[w] \notin {"off", "reg"}

\* SharedStateSpace::setFlightMode: the control authority of each mode.
AuthorityOfMutant(mode) ==
    [pilot_throttle |-> mode # "AUTO", pilot_brake |-> mode # "AUTO",
     auto_throttle |-> mode = "AUTO", auto_brake |-> mode = "AUTO"]
AuthorityOf(mode) ==
    CASE mode = "MANUAL"    -> [pilot_throttle |-> TRUE, pilot_brake |-> TRUE,
                                auto_throttle |-> FALSE, auto_brake |-> FALSE]
      [] mode = "AUTO"      -> [pilot_throttle |-> FALSE, pilot_brake |-> FALSE,
                                auto_throttle |-> TRUE, auto_brake |-> TRUE]
      [] mode = "SEMI_AUTO" -> [pilot_throttle |-> TRUE, pilot_brake |-> TRUE,
                                auto_throttle |-> TRUE, auto_brake |-> TRUE]

\* GenericEvents::ControllerAction, as named by getActionName (the actions of
\* the throttle, brake, stop-all and mode groups).
ActionNames == {"START_THROTTLE_INCREASE", "STOP_THROTTLE_INCREASE",
                "START_THROTTLE_DECREASE", "START_BRAKE",
                "STOP_ALL_CONTROLLERS", "SWITCH_TO_AUTO_MODE",
                "SWITCH_TO_MANUAL_MODE"}

\* action_configs.find(name) == action_configs.end()
NoConfig == [controller_name |-> "none", state_settings |-> {},
             action_type |-> "none"]

\* The motion state a tick leaves behind.
MotionState == [position |-> position, velocity |-> velocity,
                acceleration |-> acceleration, throttle |-> throttle,
                brake |-> brake]

\* The fields of StateSnapshot the model carries (thrust, drag_force,
\* brake_force, simulation_time and the pitch fields are not compared).
ZeroSnapshot == [position |-> 0, velocity |-> 0, acceleration |-> 0,
                 throttle |-> 0, brake |-> 0]

\* A store to the motion atomics, as the history variables record it: the
\* state it leaves is one the atomics went through during a getState call
\* in progress, and it is a write after the last updateState.
WriteObserved ==
    /\ seen' = IF state_mutex \in Getters THEN seen \cup {MotionState'}
                                           ELSE seen
    /\ unwritten' = (unwritten /\ MotionState' = MotionState)

\* ------------------------------------------------------------------- Init
\* SharedStateSpace after TaxiInitialState::initializeMotionState and the
\* constructors of the clock, the bus and the managers, with throttle thr.
\* ws is the set of workers that have registered; when it is not empty the
\* clock thread has executed  running = true  of start() and nothing more.
\* brk and vel are the brake and the velocity of the state (0 in the taxi
\* scenario), en the value of the three control-enable flags, backlog the
\* events published and not yet popped by a bus worker.
InitBacklog(thr, brk, vel, ws, en, backlog) ==
    /\ running = (ws # {})
    /\ paused = FALSE
    /\ time_steps = 0
    /\ current_time = 0
    /\ registered_threads = Cardinality(ws)
    /\ completed_threads = 0
    /\ mtx = "free"
    /\ clk_pc = IF ws # {} THEN "prime_time" ELSE "idle"
    /\ stop_pc = "idle"
    /\ wpc = [w \in Workers |-> IF w \in ws THEN "loop" ELSE "off"]
    /\ current_step = [w \in Workers |-> 0]
    /\ thread_running = [w \in Workers |-> w \in ws]
    /\ starts = [w \in Workers |-> IF w \in ws THEN 1 ELSE 0]
    /\ throttle = thr
    /\ brake = brk
    /\ velocity = vel
    /\ position = INITIAL_POSITION
    /\ acceleration = 0
    /\ simulation_time = 0
    /\ simulation_running = TRUE
    /\ throttle_control_enabled = en
    /\ brake_control_enabled = en
    /\ cruise_control_enabled = en
    /\ flight_mode = "MANUAL"
    /\ control_auth = [pilot_throttle |-> TRUE, pilot_brake |-> TRUE,
                       auto_throttle |-> FALSE, auto_brake |-> FALSE]
    /\ queue = << >>
    /\ local_throttle = 0
    /\ local_acceleration = 0
    /\ controller_local = [td |-> 0, br |-> 0, cr |-> 0]
    /\ event_queue = backlog
    /\ bus_pc = [b \in BusWorkers |-> "wait"]
    /\ bus_item = [b \in BusWorkers |-> "none"]
    /\ call_mode = [b \in BusWorkers |-> "MANUAL"]
    /\ total_events = [e \in Events |-> Count(backlog, e)]
    /\ dropped_events = [e \in Events |-> 0]
    /\ processed_events = [e \in Events |-> 0]
    /\ triggered_events = {}
    /\ local_triggered_events = {}
    /\ mon_todo = Events
    /\ lastDone = [w \in Workers |-> 0]
    /\ wokeStopped = [w \in Workers |-> FALSE]
    /\ bodyAfterStop = [w \in Workers |-> FALSE]
    /\ stopReturned = FALSE
    /\ pausedInTick = FALSE
    /\ anyCompleted = FALSE
    /\ resumed = FALSE
    /\ committed = [tick |-> 0, state |-> [position |-> INITIAL_POSITION,
                    velocity |-> vel, acceleration |-> 0, throttle |-> thr,
                    brake |-> brk]]
    /\ init_throttle = thr
    /\ exec_count = [e \in Events |-> 0]
    /\ fell = {}
    /\ reEvaluated = {}
    /\ alone = [b \in BusWorkers |-> TRUE]
    /\ mode_done = [alone |-> FALSE, calls |-> 0]
    /\ current_state = ZeroSnapshot
    /\ state_version = 0
    /\ state_mutex = "free"
    /\ snap_pc = [c \in Updaters \cup Getters |-> "idle"]
    /\ snap_arg = [u \in Updaters |-> ZeroSnapshot]
    /\ snap_local = [g \in Getters |-> ZeroSnapshot]
    /\ update_calls = [begun |-> 0, returned |-> 0]
    /\ last_commit = ZeroSnapshot
    /\ seen = {}
    /\ unwritten = FALSE
    /\ subscribers = [e \in Events |-> << "controller" >>]
    /\ thrown = [b \in BusWorkers |-> "none"]
    /\ last_time_ = IF "rec" \in ws THEN 0 ELSE -1000
    /\ rec_mtx = "free"
    /\ rec_pc = [r \in Recorders |-> "idle"]
    /\ rec_arg = [r \in Recorders |-> 0]
    /\ rows = IF "rec" \in ws THEN << 0 >> ELSE << >>
    /\ warnings = 0
    /\ action_configs = [a \in ActionNames |-> NoConfig]
    /\ config_loaded = FALSE
    /\ act_pc = "idle"
    /\ act_todo = << >>
    /\ act_rest = {}
    /\ act_ctl = "none"
    /\ act_calls = 0
    /\ act_log = << >>
    /\ bus_mtx = 0
    /\ target_speed = TARGET_SPEED
    /\ pid_kp = DefaultGains.kp
    /\ pid_ki = DefaultGains.ki
    /\ pid_kd = DefaultGains.kd
    /\ target_pitch_angle = 0
    /\ integral_error = 0
    /\ previous_error = 0
    /\ pitch_angle = 0
    /\ pitch_control_output = 0
    /\ pitch_control_enabled = en
    /\ pitch_local = [current_pitch |-> 0, error |-> 0, proportional |-> 0,
                      ki |-> 0, integral |-> 0, kd |-> 0, derivative |-> 0]
    /\ pid_pc = "idle"
    /\ pid_arg = DefaultGains
    /\ next_time = IF "rec" \in ws THEN 1 ELSE 0
    /\ samples = IF "rec" \in ws
                 THEN << [time |-> 0, step |-> 0, position |-> INITIAL_POSITION,
                          velocity |-> vel] >>
                 ELSE << >>
    /\ main_pc = "wait"
    /\ ctl_pc = "poll"
    /\ ctl_running = TRUE
    /\ ctl_paused = FALSE
    /\ mgr_running = TRUE
    /\ mgr_pc = "check"
    /\ start_pc = [b \in BusWorkers |-> "idle"]
    /\ start_arg = [b \in BusWorkers |-> "none"]
    /\ start_calls = [b \in BusWorkers |-> 0]
    /\ joinable = [w \in Workers |-> w \in ws]
    /\ extra_registered = [w \in Workers |-> 0]
    /\ aborted = FALSE

\* Nothing published yet.
InitState(thr, brk, vel, ws, en) == InitBacklog(thr, brk, vel, ws, en, << >>)

\* The taxi scenario's state: at rest, brake released, control flags off.
InitWith(thr, ws) == InitState(thr, 0, 0, ws, FALSE)

\* No thread started.
Init == InitWith(0, {})

\* ------------------------------------------------- SimulationClock::start
\* if (running) return; running = true; paused = false;
ClockStart ==
    /\ clk_pc = "idle"
    /\ running' = TRUE
    /\ paused' = FALSE
    /\ clk_pc' = "prime_time"
    /\ pausedInTick' = FALSE
    /\ resumed' = FALSE
    /\ UNCHANGED << time_steps, current_time, registered_threads,
                    completed_threads, mtx, stop_pc, workerVars, dataVars,
                    lastDone, wokeStopped, bodyAfterStop, stopReturned,
                    anyCompleted, committed, eventVars, snapVars, writeHist,
                    subVars, recVars, listVars, mutexVars, scenarioVars,
                    pitchVars, rowVars, shutdownVars, raceVars >>

\* The priming block: lock; current_time += dt;
ClockPrimeTime ==
    /\ clk_pc = "prime_time"
    /\ mtx = "free"
    /\ mtx' = "clock"
    /\ current_time' = current_time + 1
    /\ clk_pc' = "prime_step"
    /\ UNCHANGED << running, paused, time_steps, registered_threads,
                    completed_threads, stop_pc, workerVars, dataVars,
                    busVars, monVars, histVars, snapVars, writeHist,
                    subVars, recVars, listVars, mutexVars, scenarioVars,
                    pitchVars, rowVars, shutdownVars, raceVars >>

\* time_steps++; cv_step_start.notify_all(); unlock.
ClockPrimeStep ==
    /\ clk_pc = "prime_step"
    /\ time_steps' = time_steps + 1
    /\ wpc' = WakeStartWorkers(wpc)
    /\ mtx' = "free"
    /\ clk_pc' = "loop"
    /\ UNCHANGED << running, paused, current_time, registered_threads,
                    completed_threads, stop_pc, current_step, thread_running,
                    starts, dataVars, busVars, monVars, histVars,
                    snapVars, writeHist, subVars, recVars, listVars,
                    mutexVars, scenarioVars, pitchVars, rowVars,
                    shutdownVars, raceVars >>

\* while (running.load()) { ... } : the loop test.  The bound on the number
\* of ticks is applied here, where the clock thread holds no lock.
ClockLoop ==
    /\ clk_pc = "loop"
    /\ IF running
       THEN /\ time_steps < MaxStep
            /\ clk_pc' = "barrier_lock"
       ELSE clk_pc' = "done"
    /\ UNCHANGED << running, paused, time_steps, current_time,
                    registered_threads, completed_threads, mtx, stop_pc,
                    workerVars, dataVars, busVars, monVars, histVars,
                    snapVars, writeHist, subVars, recVars, listVars,
                    mutexVars, scenarioVars, pitchVars, rowVars,
                    shutdownVars, raceVars >>

\* The barrier predicate of cv_step_end.wait.
BarrierPassed ==
    completed_threads >= registered_threads \/ ~running

\* lock (or re-lock after a wake-up) and evaluate the barrier predicate.
ClockBarrierCheck ==
    /\ clk_pc = "barrier_lock"
    /\ mtx = "free"
    /\ mtx' = "clock"
    /\ clk_pc' = IF BarrierPassed THEN "post_barrier" ELSE "barrier_towait"
    /\ UNCHANGED << running, paused, time_steps, current_time,
                    registered_threads, completed_threads, stop_pc,
                    workerVars, dataVars, busVars, monVars, histVars,
                    snapVars, writeHist, subVars, recVars, listVars,
                    mutexVars, scenarioVars, pitchVars, rowVars,
                    shutdownVars, raceVars >>

\* cv_step_end.wait: release the mutex and join the wait set.
ClockBarrierWait ==
    /\ clk_pc = "barrier_towait"
    /\ mtx' = "free"
    /\ clk_pc' = "barrier_waiting"
    /\ UNCHANGED << running, paused, time_steps, current_time,
                    registered_threads, completed_threads, stop_pc,
                    workerVars, dataVars, busVars, monVars, histVars,
                    snapVars, writeHist, subVars, recVars, listVars,
                    mutexVars, scenarioVars, pitchVars, rowVars,
                    shutdownVars, raceVars >>

\* if (!running) break;  completed_threads = 0;
ClockPostBarrier ==
    /\ clk_pc = "post_barrier"
    /\ IF running
       THEN /\ completed_threads' = 0
            /\ clk_pc' = "pause_check"
            /\ mtx' = mtx
       ELSE /\ completed_threads' = completed_threads
            /\ clk_pc' = "done"
            /\ mtx' = "free"
    /\ UNCHANGED << running, paused, time_steps, current_time,
                    registered_threads, stop_pc, workerVars, dataVars,
                    busVars, monVars, histVars, snapVars, writeHist,
                    subVars, recVars, listVars, mutexVars, scenarioVars,
                    pitchVars, rowVars, shutdownVars, raceVars >>

\* while (paused && running) { cv_step_start.wait(...) }  if (!running) break;
ClockPauseCheck ==
    /\ clk_pc = "pause_check"
    /\ IF paused /\ running
       THEN /\ clk_pc' = "pause_pred"
            /\ mtx' = mtx
       ELSE IF running
            THEN /\ clk_pc' = "adv_time"
                 /\ mtx' = mtx
            ELSE /\ clk_pc' = "done"
                 /\ mtx' = "free"
    /\ UNCHANGED << running, paused, time_steps, current_time,
                    registered_threads, completed_threads, stop_pc,
                    workerVars, dataVars, busVars, monVars, histVars,
                    snapVars, writeHist, subVars, recVars, listVars,
                    mutexVars, scenarioVars, pitchVars, rowVars,
                    shutdownVars, raceVars >>

\* cv_step_start.wait in the pause loop evaluates  !paused || !running  with
\* the mutex held before it blocks.
ClockPausePred ==
    /\ clk_pc = "pause_pred"
    /\ clk_pc' = IF ~paused \/ ~running THEN "pause_check" ELSE "pause_towait"
    /\ UNCHANGED << running, paused, time_steps, current_time,
                    registered_threads, completed_threads, mtx, stop_pc,
                    workerVars, dataVars, busVars, monVars, histVars,
                    snapVars, writeHist, subVars, recVars, listVars,
                    mutexVars, scenarioVars, pitchVars, rowVars,
                    shutdownVars, raceVars >>

\* cv_step_start.wait in the pause loop: release the mutex, join the wait set.
ClockPauseWait ==
    /\ clk_pc = "pause_towait"
    /\ mtx' = "free"
    /\ clk_pc' = "pause_waiting"
    /\ UNCHANGED << running, paused, time_steps, current_time,
                    registered_threads, completed_threads, stop_pc,
                    workerVars, dataVars, busVars, monVars, histVars,
                    snapVars, writeHist, subVars, recVars, listVars,
                    mutexVars, scenarioVars, pitchVars, rowVars,
                    shutdownVars, raceVars >>

\* Woken in the pause loop: re-lock and evaluate  !paused || !running.
ClockPauseRecheck ==
    /\ clk_pc = "pause_lock"
    /\ mtx = "free"
    /\ mtx' = "clock"
    /\ clk_pc' = IF ~paused \/ ~running THEN "pause_check" ELSE "pause_towait"
    /\ UNCHANGED << running, paused, time_steps, current_time,
                    registered_threads, completed_threads, stop_pc,
                    workerVars, dataVars, busVars, monVars, histVars,
                    snapVars, writeHist, subVars, recVars, listVars,
                    mutexVars, scenarioVars, pitchVars, rowVars,
                    shutdownVars, raceVars >>

\* current_time.store(current_time.load() + dt);
ClockAdvanceTime ==
    /\ clk_pc = "adv_time"
    /\ current_time' = current_time + 1
    /\ clk_pc' = "adv_step"
    /\ UNCHANGED << running, paused, time_steps, registered_threads,
                    completed_threads, mtx, stop_pc, workerVars, dataVars,
                    busVars, monVars, histVars, snapVars, writeHist,
                    subVars, recVars, listVars, mutexVars, scenarioVars,
                    pitchVars, rowVars, shutdownVars, raceVars >>

\* time_steps++; cv_step_start.notify_all(); end of the iteration: unlock.
\* The tick that was current is closed here: its motion state is recorded.
ClockAdvanceStep ==
    /\ clk_pc = "adv_step"
    /\ time_steps' = time_steps + 1
    /\ wpc' = WakeStartWorkers(wpc)
    /\ mtx' = "free"
    /\ clk_pc' = "loop"
    /\ committed' = [tick |-> time_steps, state |-> MotionState]
    /\ UNCHANGED << running, paused, current_time, registered_threads,
                    completed_threads, stop_pc, current_step, thread_running,
                    starts, dataVars, lastDone, wokeStopped, bodyAfterStop,
                    stopReturned, pausedInTick, anyCompleted, resumed,
                    eventVars, snapVars, writeHist, subVars, recVars,
                    listVars, mutexVars, scenarioVars, pitchVars, rowVars,
                    shutdownVars, raceVars >>

\* A condition variable may wake a waiter with no notify (spurious wake-up).
ClockSpuriousWake ==
    /\ clk_pc \in {"barrier_waiting", "pause_waiting"}
    /\ clk_pc' = IF clk_pc = "barrier_waiting" THEN "barrier_lock" ELSE "pause_lock"
    /\ UNCHANGED << running, paused, time_steps, current_time,
                    registered_threads, completed_threads, mtx, stop_pc,
                    workerVars, dataVars, busVars, monVars, histVars,
                    snapVars, writeHist, subVars, recVars, listVars,
                    mutexVars, scenarioVars, pitchVars, rowVars,
                    shutdownVars, raceVars >>

\* The clock thread after  running = true : the priming block and the loop,
\* in runs where pause() is never called.
ClockTicks ==
    \/ ClockPrimeTime
    \/ ClockPrimeStep
    \/ ClockLoop
    \/ ClockBarrierCheck
    \/ ClockBarrierWait
    \/ ClockPostBarrier
    \/ ClockPauseCheck
    \/ ClockAdvanceTime
    \/ ClockAdvanceStep

\* The clock thread inside the pause loop.
ClockPaused ==
    \/ ClockPausePred
    \/ ClockPauseWait
    \/ ClockPauseRecheck

\* The clock thread in runs where pause() is never called.
ClockRun ==
    \/ ClockStart
    \/ ClockTicks

\* The clock thread.
ClockStep ==
    \/ ClockStart
    \/ ClockTicks
    \/ ClockPaused

\* ---------------------------------- SimulationClock::stop / pause / resume
\* stop(): running = false;
StopFlag ==
    /\ stop_pc = "idle"
    /\ running' = FALSE
    /\ stop_pc' = "notify"
    /\ UNCHANGED << paused, time_steps, current_time, registered_threads,
                    completed_threads, mtx, clk_pc, workerVars, dataVars,
                    busVars, monVars, histVars, snapVars, writeHist,
                    subVars, recVars, listVars, mutexVars, scenarioVars,
                    pitchVars, rowVars, shutdownVars, raceVars >>

\* stop(): cv_step_start.notify_all(); cv_step_end.notify_all();
StopNotify ==
    /\ stop_pc = "notify"
    /\ wpc' = WakeStartWorkers(wpc)
    /\ clk_pc' = WakeEndClock(WakeStartClock(clk_pc))
    /\ stop_pc' = "idle"
    /\ stopReturned' = TRUE
    /\ UNCHANGED << running, paused, time_steps, current_time,
                    registered_threads, completed_threads, mtx, current_step,
                    thread_running, starts, dataVars, lastDone, wokeStopped,
                    bodyAfterStop, pausedInTick, anyCompleted, resumed,
                    committed, eventVars, snapVars, writeHist, subVars,
                    recVars, listVars, mutexVars, scenarioVars, pitchVars,
                    rowVars, shutdownVars, raceVars >>

\* Some registered worker has not yet completed the tick the clock published last.
TickInProgress ==
    /\ running
    /\ time_steps >= 1
    /\ \E w \in Workers : IsRegistered(w) /\ lastDone[w] < time_steps

\* pause(): paused = true;
Pause ==
    /\ ~paused
    /\ paused' = TRUE
    /\ pausedInTick' = TickInProgress
    /\ resumed' = FALSE
    /\ UNCHANGED << running, time_steps, current_time, registered_threads,
                    completed_threads, mtx, clk_pc, stop_pc, workerVars,
                    dataVars, lastDone, wokeStopped, bodyAfterStop,
                    stopReturned, anyCompleted, committed, eventVars,
                    snapVars, writeHist, subVars, recVars, listVars,
                    mutexVars, scenarioVars, pitchVars, rowVars,
                    shutdownVars, raceVars >>

\* resume(): paused = false;
Resume ==
    /\ paused
    /\ paused' = FALSE
    /\ pausedInTick' = FALSE
    /\ resumed' = TRUE
    /\ UNCHANGED << running, time_steps, current_time, registered_threads,
                    completed_threads, mtx, clk_pc, stop_pc, workerVars,
                    dataVars, lastDone, wokeStopped, bodyAfterStop,
                    stopReturned, anyCompleted, committed, eventVars,
                    snapVars, writeHist, subVars, recVars, listVars,
                    mutexVars, scenarioVars, pitchVars, rowVars,
                    shutdownVars, raceVars >>

\* ------------------------------------------------------ worker life cycle
\* start() of a worker object: if (!running) { running = true; thread = ... }
\* A new thread can be assigned only when the previous one has ended.
WorkerStart(w) ==
    /\ ~thread_running[w]
    /\ wpc[w] = "off"
    /\ starts[w] < MaxStarts
    /\ starts' = [starts EXCEPT ![w] = @ + 1]
    /\ thread_running' = [thread_running EXCEPT ![w] = TRUE]
    /\ wpc' = [wpc EXCEPT ![w] = "reg"]
    /\ UNCHANGED << clockVars, current_step, dataVars, busVars, monVars,
                    histVars, snapVars, writeHist, subVars, recVars,
                    listVars, mutexVars, scenarioVars, pitchVars, rowVars,
                    shutdownVars, raceVars >>

\* stop() of a worker object: running = false; (the caller then joins).
WorkerStop(w) ==
    /\ thread_running[w]
    /\ thread_running' = [thread_running EXCEPT ![w] = FALSE]
    /\ UNCHANGED << clockVars, wpc, current_step, starts, dataVars, busVars,
                    monVars, histVars, snapVars, writeHist, subVars,
                    recVars, listVars, mutexVars, scenarioVars, pitchVars,
                    rowVars, shutdownVars, raceVars >>

\* applyStateSettings: state.throttle_control_enabled = (value == "true").
SetThrottleControlEnabled(b) ==
    /\ throttle_control_enabled # b
    /\ throttle_control_enabled' = b
    /\ UNCHANGED << clockVars, workerVars, motionVars, simulation_running,
                    brake_control_enabled, cruise_control_enabled,
                    flight_mode, control_auth, localVars, busVars, monVars,
                    histVars, snapVars, writeHist, subVars, recVars,
                    listVars, mutexVars, scenarioVars, pitchVars, rowVars,
                    shutdownVars, raceVars >>

\* applyStateSettings: state.brake_control_enabled = (value == "true").
SetBrakeControlEnabled(b) ==
    /\ brake_control_enabled # b
    /\ brake_control_enabled' = b
    /\ UNCHANGED << clockVars, workerVars, motionVars, simulation_running,
                    throttle_control_enabled, cruise_control_enabled,
                    flight_mode, control_auth, localVars, busVars, monVars,
                    histVars, snapVars, writeHist, subVars, recVars,
                    listVars, mutexVars, scenarioVars, pitchVars, rowVars,
                    shutdownVars, raceVars >>

\* --------------------------------------------- the workers' common loop
\* After registerThread() the data recorder writes its initial row; the
\* other workers enter their loop.
AfterRegister(w) == IF w = "rec" THEN "initial" ELSE "loop"

\* clock.registerThread(); size_t current_step = 0;
WorkerRegister(w) ==
    /\ wpc[w] = "reg"
    /\ registered_threads' = registered_threads + 1
    /\ current_step' = [current_step EXCEPT ![w] = 0]
    /\ wpc' = [wpc EXCEPT ![w] = AfterRegister(w)]
    /\ UNCHANGED << running, paused, time_steps, current_time,
                    completed_threads, mtx, clk_pc, stop_pc, thread_running,
                    starts, dataVars, busVars, monVars, histVars,
                    snapVars, writeHist, subVars, recVars, listVars,
                    mutexVars, scenarioVars, pitchVars, rowVars,
                    shutdownVars, raceVars >>

\* The loop condition of each kind of worker.
\*   controllers     : running && clock.isRunning()
\*   data recorder   : running_ && clock_.isRunning()
\*   state manager   : running_
\*   dynamics thread : state.simulation_running
\*   event monitor   : running  (it sleeps while the clock is stopped)
LoopCondition(w) ==
    CASE w \in {"ti", "td", "br", "cr", "ph", "rec"}
                     -> thread_running[w] /\ running
      [] w = "sm"  -> thread_running[w]
      [] w = "dyn" -> simulation_running
      [] w = "mon" -> thread_running[w]

WorkerLoop(w) ==
    /\ wpc[w] = "loop"
    /\ IF LoopCondition(w)
       THEN \* the event monitor polls every 5 ms while the clock is stopped
            /\ (w = "mon" => running)
            /\ wpc' = [wpc EXCEPT ![w] = "wait_lock"]
       ELSE wpc' = [wpc EXCEPT ![w] = "unreg"]
    /\ UNCHANGED << clockVars, current_step, thread_running, starts, dataVars,
                    busVars, monVars, histVars, snapVars, writeHist,
                    subVars, recVars, listVars, mutexVars, scenarioVars,
                    pitchVars, rowVars, shutdownVars, raceVars >>

\* waitForNextStep: the predicate of cv_step_start.wait.
StepAvailableMutant(w) == TRUE
StepAvailable(w) == time_steps > current_step[w] \/ ~running

\* waitForNextStep: lock (or re-lock after a wake-up), evaluate the predicate;
\* return (unlock) when it holds.
WorkerWaitCheck(w) ==
    /\ wpc[w] = "wait_lock"
    /\ mtx = "free"
    /\ IF StepAvailable(w)
       THEN /\ wpc' = [wpc EXCEPT ![w] = "got"]
            /\ mtx' = mtx
            /\ wokeStopped' = [wokeStopped EXCEPT ![w] =
                                  ~running /\ clk_pc # "idle"]
       ELSE /\ wpc' = [wpc EXCEPT ![w] = "towait"]
            /\ mtx' = w
            /\ wokeStopped' = wokeStopped
    /\ UNCHANGED << running, paused, time_steps, current_time,
                    registered_threads, completed_threads, clk_pc, stop_pc,
                    current_step, thread_running, starts, dataVars, lastDone,
                    bodyAfterStop, stopReturned, pausedInTick, anyCompleted,
                    resumed, committed, eventVars, snapVars, writeHist,
                    subVars, recVars, listVars, mutexVars, scenarioVars,
                    pitchVars, rowVars, shutdownVars, raceVars >>

\* cv_step_start.wait: release the mutex and join the wait set.
WorkerWait(w) ==
    /\ wpc[w] = "towait"
    /\ mtx' = "free"
    /\ wpc' = [wpc EXCEPT ![w] = "waiting"]
    /\ UNCHANGED << running, paused, time_steps, current_time,
                    registered_threads, completed_threads, clk_pc, stop_pc,
                    current_step, thread_running, starts, dataVars, busVars,
                    monVars, histVars, snapVars, writeHist, subVars,
                    recVars, listVars, mutexVars, scenarioVars, pitchVars,
                    rowVars, shutdownVars, raceVars >>

\* A spurious wake-up of a worker in cv_step_start.wait.
WorkerSpuriousWake(w) ==
    /\ wpc[w] = "waiting"
    /\ wpc' = [wpc EXCEPT ![w] = "wait_lock"]
    /\ UNCHANGED << clockVars, current_step, thread_running, starts, dataVars,
                    busVars, monVars, histVars, snapVars, writeHist,
                    subVars, recVars, listVars, mutexVars, scenarioVars,
                    pitchVars, rowVars, shutdownVars, raceVars >>

\* Whether the worker tests clock.isRunning() between the wait and its body.
RechecksClock(w) == w \in RecheckWorkers

\* current_step = clock.getStepCount(); and, in the state manager and the
\* dynamics thread,  if (!clock.isRunning()) break;
WorkerGot(w) ==
    /\ wpc[w] = "got"
    /\ current_step' = [current_step EXCEPT ![w] = time_steps]
    /\ wpc' = [wpc EXCEPT ![w] =
                 IF RechecksClock(w) /\ ~running THEN "unreg" ELSE "body"]
    /\ UNCHANGED << clockVars, thread_running, starts, dataVars, busVars,
                    monVars, histVars, snapVars, writeHist, subVars,
                    recVars, listVars, mutexVars, scenarioVars, pitchVars,
                    rowVars, shutdownVars, raceVars >>

\* notifyStepCompleted: lock; completed_threads++; cv_step_end.notify_one();
WorkerNotify(w) ==
    /\ wpc[w] = "notify"
    /\ mtx = "free"
    /\ completed_threads' = completed_threads + 1
    /\ clk_pc' = WakeEndClock(clk_pc)
    /\ wpc' = [wpc EXCEPT ![w] = "loop"]
    /\ lastDone' = [lastDone EXCEPT ![w] = current_step[w]]
    /\ anyCompleted' = TRUE
    /\ UNCHANGED << running, paused, time_steps, current_time,
                    registered_threads, mtx, stop_pc, current_step,
                    thread_running, starts, dataVars, wokeStopped,
                    bodyAfterStop, stopReturned, pausedInTick, resumed,
                    committed, eventVars, snapVars, writeHist, subVars,
                    recVars, listVars, mutexVars, scenarioVars, pitchVars,
                    rowVars, shutdownVars, raceVars >>

\* clock.unregisterThread(); the thread ends.
WorkerUnregister(w) ==
    /\ wpc[w] = "unreg"
    /\ registered_threads' = registered_threads - 1
    /\ wpc' = [wpc EXCEPT ![w] = "off"]
    /\ UNCHANGED << running, paused, time_steps, current_time,
                    completed_threads, mtx, clk_pc, stop_pc, current_step,
                    thread_running, starts, dataVars, busVars, monVars,
                    histVars, snapVars, writeHist, subVars, recVars,
                    listVars, mutexVars, scenarioVars, pitchVars, rowVars,
                    shutdownVars, raceVars >>

\* One step of a registered worker that stays in its loop.
WorkerCycle(w) ==
    \/ WorkerLoop(w)
    \/ WorkerWaitCheck(w)
    \/ WorkerWait(w)
    \/ WorkerGot(w)
    \/ WorkerNotify(w)

WorkerStep(w) ==
    \/ WorkerRegister(w)
    \/ WorkerCycle(w)
    \/ WorkerUnregister(w)

\* ------------------------------------------------ StateManagerThread::run
\* process_raw_update: the store a message asks for, on the motion state.
ProcessRawUpdate(msg, s) ==
    CASE msg.type = "Position"     -> [s EXCEPT !.position = msg.value]
      [] msg.type = "Velocity"     -> [s EXCEPT !.velocity = msg.value]
      [] msg.type = "Acceleration" -> [s EXCEPT !.acceleration = msg.value]
      [] msg.type = "Throttle"     -> [s EXCEPT !.throttle = msg.value]
      [] msg.type = "Brake"        -> [s EXCEPT !.brake = msg.value]

\* while (queue_.try_pop(msg)) process_raw_update(msg);  one iteration, or
\* the end of the loop when try_pop finds the queue empty.
\* (perform_secondary_processing is empty; printState only logs.)
SmDrain ==
    /\ wpc["sm"] = "body"
    /\ IF queue = << >>
       THEN /\ wpc' = [wpc EXCEPT !["sm"] = "notify"]
            /\ UNCHANGED << queue, throttle, brake, velocity, position,
                            acceleration, bodyAfterStop >>
       ELSE /\ queue' = Tail(queue)
            /\ LET s == ProcessRawUpdate(Head(queue), MotionState) IN
                 /\ position' = s.position
                 /\ velocity' = s.velocity
                 /\ acceleration' = s.acceleration
                 /\ throttle' = s.throttle
                 /\ brake' = s.brake
            /\ bodyAfterStop' = [bodyAfterStop EXCEPT !["sm"] = @ \/ wokeStopped["sm"]]
            /\ wpc' = wpc
    /\ UNCHANGED << clockVars, current_step, thread_running, starts,
                    simulation_time, controlVars, local_throttle,
                    local_acceleration, controller_local, lastDone, wokeStopped, stopReturned,
                    pausedInTick, anyCompleted, resumed, committed,
                    eventVars, snapVars, subVars, recVars, listVars,
                    mutexVars, scenarioVars, pitchVars, rowVars,
                    shutdownVars, raceVars >>
    /\ WriteObserved

\* ------------------------------------- ThrottleController_Increase::run
\* if (state.throttle_control_enabled) updateThrottle(FIXED_DT);
\* updateThrottle: double current_throttle = state.throttle.load();
TiRead ==
    /\ wpc["ti"] = "body"
    /\ IF throttle_control_enabled
       THEN /\ local_throttle' = throttle
            /\ wpc' = [wpc EXCEPT !["ti"] = "push"]
       ELSE /\ local_throttle' = local_throttle
            /\ wpc' = [wpc EXCEPT !["ti"] = "notify"]
    /\ UNCHANGED << clockVars, current_step, thread_running, starts,
                    motionVars, controlVars, queue, local_acceleration,
                    controller_local, busVars, monVars, histVars,
                    snapVars, writeHist, subVars, recVars, listVars,
                    mutexVars, scenarioVars, pitchVars, rowVars,
                    shutdownVars, raceVars >>

\* new_throttle = min(1.0, max(0.0, current_throttle + RATE * dt))
NewThrottleInc(cur) == Min(MAX_THROTTLE, Max(0, cur + THROTTLE_INC_STEP))

\* if (|new - current| > 1e-6) queue.push({Throttle, new_throttle});
TiPush ==
    /\ wpc["ti"] = "push"
    /\ LET new == NewThrottleInc(local_throttle) IN
       IF new # local_throttle
       THEN /\ queue' = Append(queue, [type |-> "Throttle", value |-> new,
                                       tick |-> time_steps])
            /\ bodyAfterStop' = [bodyAfterStop EXCEPT !["ti"] = @ \/ wokeStopped["ti"]]
       ELSE UNCHANGED << queue, bodyAfterStop >>
    /\ wpc' = [wpc EXCEPT !["ti"] = "notify"]
    /\ UNCHANGED << clockVars, current_step, thread_running, starts,
                    motionVars, controlVars, local_throttle,
                    local_acceleration, controller_local, lastDone, wokeStopped, stopReturned,
                    pausedInTick, anyCompleted, resumed, committed,
                    eventVars, snapVars, writeHist, subVars, recVars,
                    listVars, mutexVars, scenarioVars, pitchVars, rowVars,
                    shutdownVars, raceVars >>

\* A controller's loop body:  if (state.<flag>) update...();  then
\* notifyStepCompleted(): where the thread goes after the test of the flag.
AfterCheckMutant(enabled, update) == update
AfterCheck(enabled, update) == IF enabled THEN update ELSE "notify"

\* ------------------------------------- ThrottleController_Decrease::run
\* if (state.throttle_control_enabled) updateThrottle(FIXED_DT);
\* updateThrottle: double current_throttle = state.throttle.load();
TdRead ==
    /\ wpc["td"] = "body"
    /\ controller_local' =
         IF throttle_control_enabled
         THEN [controller_local EXCEPT !.td = throttle]
         ELSE controller_local
    /\ wpc' = [wpc EXCEPT !["td"] =
                 AfterCheck(throttle_control_enabled, "push")]
    /\ UNCHANGED << clockVars, current_step, thread_running, starts,
                    motionVars, controlVars, queue, local_throttle,
                    local_acceleration, busVars, monVars, histVars,
                    snapVars, writeHist, subVars, recVars, listVars,
                    mutexVars, scenarioVars, pitchVars, rowVars,
                    shutdownVars, raceVars >>

\* new_throttle = current_throttle - RATE * dt;  if (< 0.0) new_throttle = 0.0;
NewThrottleDecMutant(cur) == cur - THROTTLE_DEC_STEP
NewThrottleDec(cur) ==
    IF cur - THROTTLE_DEC_STEP < 0 THEN 0 ELSE cur - THROTTLE_DEC_STEP

\* queue.push({Throttle, new_throttle});
TdPush ==
    /\ wpc["td"] = "push"
    /\ queue' = Append(queue, [type |-> "Throttle",
                               value |-> NewThrottleDec(controller_local.td),
                               tick |-> time_steps])
    /\ bodyAfterStop' = [bodyAfterStop EXCEPT !["td"] = @ \/ wokeStopped["td"]]
    /\ wpc' = [wpc EXCEPT !["td"] = "notify"]
    /\ UNCHANGED << clockVars, current_step, thread_running, starts,
                    motionVars, controlVars, local_throttle,
                    local_acceleration, controller_local, lastDone,
                    wokeStopped, stopReturned, pausedInTick, anyCompleted,
                    resumed, committed, eventVars, snapVars, writeHist,
                    subVars, recVars, listVars, mutexVars, scenarioVars,
                    pitchVars, rowVars, shutdownVars, raceVars >>

\* ------------------------------------------------- BrakeController::run
\* if (state.brake_control_enabled) updateBrake(FIXED_DT);
\* updateBrake: double current_brake = state.brake.load();
BrRead ==
    /\ wpc["br"] = "body"
    /\ controller_local' =
         IF brake_control_enabled
         THEN [controller_local EXCEPT !.br = brake]
         ELSE controller_local
    /\ wpc' = [wpc EXCEPT !["br"] =
                 AfterCheck(brake_control_enabled, "store")]
    /\ UNCHANGED << clockVars, current_step, thread_running, starts,
                    motionVars, controlVars, queue, local_throttle,
                    local_acceleration, busVars, monVars, histVars,
                    snapVars, writeHist, subVars, recVars, listVars,
                    mutexVars, scenarioVars, pitchVars, rowVars,
                    shutdownVars, raceVars >>

\* new_brake = current_brake + BRAKE_RATE * dt;  if (> MAX_BRAKE) new_brake = MAX_BRAKE;
NewBrake(cur) ==
    IF cur + BRAKE_STEP > MAX_BRAKE THEN MAX_BRAKE ELSE cur + BRAKE_STEP

\* state.brake.store(new_brake);
BrStore ==
    /\ wpc["br"] = "store"
    /\ brake' = NewBrake(controller_local.br)
    /\ bodyAfterStop' = [bodyAfterStop EXCEPT !["br"] = @ \/ wokeStopped["br"]]
    /\ wpc' = [wpc EXCEPT !["br"] = "notify"]
    /\ UNCHANGED << clockVars, current_step, thread_running, starts,
                    throttle, velocity, position, acceleration,
                    simulation_time, controlVars, localVars, lastDone,
                    wokeStopped, stopReturned, pausedInTick, anyCompleted,
                    resumed, committed, eventVars, snapVars, subVars,
                    recVars, listVars, mutexVars, scenarioVars, pitchVars,
                    rowVars, shutdownVars, raceVars >>
    /\ WriteObserved

\* ----------------------------------------- CruiseOnRunwayController::run
\* if (state.cruise_control_enabled) updateThrottle();
\* updateThrottle: double current_velocity = state.velocity.load();
CrRead ==
    /\ wpc["cr"] = "body"
    /\ IF cruise_control_enabled
       THEN /\ controller_local' = [controller_local EXCEPT !.cr = velocity]
            /\ wpc' = [wpc EXCEPT !["cr"] = "store_throttle"]
       ELSE /\ controller_local' = controller_local
            /\ wpc' = [wpc EXCEPT !["cr"] = "notify"]
    /\ UNCHANGED << clockVars, current_step, thread_running, starts,
                    motionVars, controlVars, queue, local_throttle,
                    local_acceleration, busVars, monVars, histVars,
                    snapVars, writeHist, subVars, recVars, listVars,
                    mutexVars, scenarioVars, pitchVars, rowVars,
                    shutdownVars, raceVars >>

\* calculateThrottleAndBrake: velocity_error = target - current; when it is
\* positive throttle = max(0, min(GAIN * error, MAX_THROTTLE)) and brake = 0,
\* otherwise throttle = 0 and brake = max(0, min(-GAIN * error, MAX_BRAKE)).
CruiseThrottle(v) ==
    LET error == CRUISE_TARGET - v IN
    IF error > 0
    THEN Max(0, Min(error \div CRUISE_ERROR_PER_MILLE, MAX_THROTTLE))
    ELSE 0

CruiseBrake(v) ==
    LET error == CRUISE_TARGET - v IN
    IF error > 0
    THEN 0
    ELSE Max(0, Min((-error) \div CRUISE_ERROR_PER_MILLE, MAX_BRAKE))

\* state.throttle.store(throttle);
CrStoreThrottle ==
    /\ wpc["cr"] = "store_throttle"
    /\ throttle' = CruiseThrottle(controller_local.cr)
    /\ bodyAfterStop' = [bodyAfterStop EXCEPT !["cr"] = @ \/ wokeStopped["cr"]]
    /\ wpc' = [wpc EXCEPT !["cr"] = "store_brake"]
    /\ UNCHANGED << clockVars, current_step, thread_running, starts,
                    brake, velocity, position, acceleration,
                    simulation_time, controlVars, localVars, lastDone,
                    wokeStopped, stopReturned, pausedInTick, anyCompleted,
                    resumed, committed, eventVars, snapVars, subVars,
                    recVars, listVars, mutexVars, scenarioVars, pitchVars,
                    rowVars, shutdownVars, raceVars >>
    /\ WriteObserved

\* state.brake.store(brake);
CrStoreBrake ==
    /\ wpc["cr"] = "store_brake"
    /\ brake' = CruiseBrake(controller_local.cr)
    /\ wpc' = [wpc EXCEPT !["cr"] = "notify"]
    /\ UNCHANGED << clockVars, current_step, thread_running, starts,
                    throttle, velocity, position, acceleration,
                    simulation_time, controlVars, localVars, busVars,
                    monVars, histVars, snapVars, subVars, recVars, listVars,
                    mutexVars, scenarioVars, pitchVars, rowVars,
                    shutdownVars, raceVars >>
    /\ WriteObserved

\* ------------------------------------------ ACForceModel::calculateNetForce
\* drag = 0.6125 * v * v, with v * v taken in whole (m/s)^2.
Drag(v) ==
    ((((v \div 1000) * (v \div 1000)) \div 1000000) * DRAG_FACTOR) \div 10000

\* speed_factor = min(1.0, max(0.3, |v| / 50.0)), in 1/1000.
SpeedFactor(v) == Min(1000, Max(300, Abs(v) \div 50000))

\* brake * max_brake_force * speed_factor when moving, 0 at rest.
BrakeForce(brk, v) ==
    IF Abs(v) < REST_VELOCITY
    THEN 0
    ELSE (brk * SpeedFactor(v) * (MAX_BRAKE_FORCE \div 100000)) \div 10

\* net_force: thrust - drag - brake_force, and static friction at rest.
NetForce(thr, brk, v) ==
    LET net == thr * THRUST_PER_MILLE - Drag(v) - BrakeForce(brk, v) IN
    IF Abs(v) < REST_VELOCITY
    THEN IF Abs(net) < STATIC_FRICTION
         THEN 0
         ELSE IF net > 0 THEN net - STATIC_FRICTION ELSE net + STATIC_FRICTION
    ELSE net

\* acceleration = net_force / mass, in mm/s^2.
Acceleration(thr, brk, v) == (NetForce(thr, brk, v) * 1000) \div MASS

\* new_velocity = v + a * 0.01;  new_position = x + v * 0.01.
NewVelocity(v, a) == v + a * 10
NewPosition(x, v) == x + v \div 100

\* ----------------------------------------- the dynamics thread (main_Taxi)
\* state.simulation_time.store(clock.getCurrentTime());  step(): the forces
\* from throttle, brake and velocity, acceleration = net_force / mass.
\* (The stores of thrust, drag_force and brake_force are read by no thread
\* of the model.)
DynForce ==
    /\ wpc["dyn"] = "body"
    /\ simulation_time' = current_time
    /\ local_acceleration' = Acceleration(throttle, brake, velocity)
    /\ wpc' = [wpc EXCEPT !["dyn"] = "integrate"]
    /\ UNCHANGED << clockVars, current_step, thread_running, starts,
                    throttle, brake, velocity, position, acceleration,
                    controlVars, queue, local_throttle, controller_local,
                    busVars, monVars, histVars, snapVars, writeHist,
                    subVars, recVars, listVars, mutexVars, scenarioVars,
                    pitchVars, rowVars, shutdownVars, raceVars >>

\* step(): load velocity and position, push Velocity, Position and
\* Acceleration, store simulation_time.
DynIntegrate ==
    /\ wpc["dyn"] = "integrate"
    /\ queue' = queue \o
         << [type |-> "Velocity", tick |-> time_steps,
             value |-> NewVelocity(velocity, local_acceleration)],
            [type |-> "Position", tick |-> time_steps,
             value |-> NewPosition(position, velocity)],
            [type |-> "Acceleration", tick |-> time_steps,
             value |-> local_acceleration] >>
    /\ simulation_time' = current_time
    /\ wpc' = [wpc EXCEPT !["dyn"] = "notify"]
    /\ UNCHANGED << clockVars, current_step, thread_running, starts,
                    throttle, brake, velocity, position, acceleration,
                    controlVars, local_throttle, local_acceleration,
                    controller_local, busVars, monVars, histVars,
                    snapVars, writeHist, subVars, recVars, listVars,
                    mutexVars, scenarioVars, pitchVars, rowVars,
                    shutdownVars, raceVars >>

\* The motion state after one tick in which the integrator runs on the
\* state the previous tick left and the state manager then applies its
\* three messages.
RefStep(s) ==
    LET a == Acceleration(s.throttle, s.brake, s.velocity) IN
    [s EXCEPT !.velocity = NewVelocity(s.velocity, a),
              !.position = NewPosition(s.position, s.velocity),
              !.acceleration = a]

RECURSIVE RefState(_, _)
\* The motion state after n such ticks from the initial state with throttle thr.
RefState(thr, n) ==
    IF n = 0
    THEN [position |-> INITIAL_POSITION, velocity |-> 0, acceleration |-> 0,
          throttle |-> thr, brake |-> 0]
    ELSE RefStep(RefState(thr, n - 1))

\* ------------------------------------------------------------- EventBus
\* publish(): lock; stats.total_events++; a full queue drops the event,
\* otherwise the event is queued (and one worker notified).
BusPublishMutant(e) ==
    /\ bus_mtx = 0
    /\ total_events' = [total_events EXCEPT ![e] = @ + 1]
    /\ dropped_events' = dropped_events
    /\ event_queue' = Append(event_queue, e)

BusPublish(e) ==
    /\ bus_mtx = 0
    /\ total_events' = [total_events EXCEPT ![e] = @ + 1]
    /\ IF Len(event_queue) >= MAX_QUEUE_SIZE
       THEN /\ dropped_events' = [dropped_events EXCEPT ![e] = @ + 1]
            /\ event_queue' = event_queue
       ELSE /\ dropped_events' = dropped_events
            /\ event_queue' = Append(event_queue, e)

\* Number of publish calls so far.
PublishCalls ==
    total_events["START_THROTTLE"] + total_events["START_BRAKE"]
        + total_events["FINAL_STOP"]

\* A call of publish(e) by any thread holding a reference to the bus.
Publish(e) ==
    /\ PublishCalls < MaxPublish
    /\ BusPublish(e)
    /\ UNCHANGED << clockVars, workerVars, dataVars, bus_pc, bus_item, call_mode,
                    processed_events, triggered_events, monVars, histVars,
                    snapVars, writeHist, subVars, recVars, listVars,
                    mutexVars, scenarioVars, pitchVars, rowVars,
                    shutdownVars, raceVars >>

\* Waiting bus workers hold no state of their own, so the one with the least
\* index can stand for any of them.
LeastWaiting(b) == \A c \in BusWorkers : bus_pc[c] = "wait" => b <= c

\* The callbacks other than the controller manager's: they return or throw.
Probes == {"probe1", "probe2"}

\* The position of a bus worker that is about to call the callback cb: the
\* controller manager's callback starts at "call", a probe is one step.
EntryOf(cb) == IF cb = "controller" THEN "call" ELSE cb

\* for (const auto& callback : it->second): the position after callback cb
\* of event e has returned or thrown, the next callback or the wait for the
\* next item.  (A callback is subscribed to an event once.)
NextCallback(e, cb) ==
    LET i == CHOOSE k \in 1..Len(subscribers[e]) : subscribers[e][k] = cb IN
    IF i = Len(subscribers[e]) THEN "wait"
                               ELSE EntryOf(subscribers[e][i + 1])

\* The worker's item after a callback: dead once the for-loop has ended.
ItemAfter(b, pc) ==
    IF pc = "wait" THEN [bus_item EXCEPT ![b] = "none"] ELSE bus_item

\* workerThread(): the unique_lock on mtx lives in the block that waits and
\* pops; its holder once the block is left, before the callbacks are called.
HeldAfterPopMutant(b) == b
HeldAfterPop(b) == 0

\* workerThread(): wait for a non-empty queue, then front() and pop(); the
\* first callback of the event is next.  (Every event has a subscriber.)
BusPop(b) ==
    /\ bus_pc[b] = "wait"
    /\ bus_mtx = 0
    /\ event_queue # << >>
    /\ bus_mtx' = HeldAfterPop(b)
    /\ bus_item' = [bus_item EXCEPT ![b] = Head(event_queue)]
    /\ event_queue' = Tail(event_queue)
    /\ bus_pc' = [bus_pc EXCEPT ![b] =
                    EntryOf(Head(subscribers[Head(event_queue)]))]
    /\ UNCHANGED << clockVars, workerVars, dataVars, call_mode, total_events,
                    dropped_events, processed_events, triggered_events,
                    monVars, histVars, snapVars, writeHist, subVars,
                    recVars, listVars, scenarioVars, pitchVars, rowVars,
                    shutdownVars, raceVars >>

\* ------------------------------- ControllerManagerThread: event callback
\* if (isEventTriggered(event_name)) return;  and, back in workerThread,
\* stats.processed_events++.  (The worker's item is dead once the callback
\* has returned: the next iteration declares a new one.)
CbCheck(b) ==
    /\ bus_pc[b] = "call"
    /\ IF bus_item[b] \in triggered_events
       THEN /\ processed_events' = [processed_events EXCEPT ![bus_item[b]] = @ + 1]
            /\ bus_pc' = [bus_pc EXCEPT ![b] =
                            NextCallback(bus_item[b], "controller")]
            /\ bus_item' = ItemAfter(b, NextCallback(bus_item[b], "controller"))
       ELSE /\ processed_events' = processed_events
            /\ bus_pc' = [bus_pc EXCEPT ![b] = "mark"]
            /\ bus_item' = bus_item
    /\ UNCHANGED << clockVars, workerVars, dataVars, event_queue,
                    call_mode, total_events, dropped_events, triggered_events,
                    monVars, histVars, snapVars, writeHist, subVars,
                    recVars, listVars, mutexVars, scenarioVars, pitchVars,
                    rowVars, shutdownVars, raceVars >>

\* markEventTriggered(event_name): lock; triggered_events[event_name] = true.
\* (handleEventStateChanges calls a callback that is not set.)
CbMark(b) ==
    /\ bus_pc[b] = "mark"
    /\ triggered_events' = triggered_events \cup {bus_item[b]}
    /\ bus_pc' = [bus_pc EXCEPT ![b] = "exec"]
    /\ UNCHANGED << clockVars, workerVars, dataVars, event_queue, bus_item,
                    call_mode, total_events, dropped_events, processed_events,
                    monVars, histVars, snapVars, writeHist, subVars,
                    recVars, listVars, mutexVars, scenarioVars, pitchVars,
                    rowVars, shutdownVars, raceVars >>

\* The controllers an event's START_ actions name.
StartedBy(e) ==
    CASE e = "START_THROTTLE" -> {"ti"}
      [] e = "START_BRAKE"    -> {"td", "br"}
      [] e = "FINAL_STOP"     -> {}

\* startController: the authority check.
AuthorityPermitsMutant(w) == TRUE
AuthorityPermits(w) ==
    IF w = "br" THEN control_auth.auto_brake ELSE control_auth.auto_throttle

\* The positions of a bus worker inside SharedStateSpace::setFlightMode: the
\* store it executes next.
ModeSteps == {"flight_mode", "pilot_throttle", "pilot_brake",
              "auto_throttle", "auto_brake"}

\* The note, for each bus worker, of whether its call of setFlightMode has
\* run without another call in progress, at the moment worker b enters one.
AloneAtCall(b) ==
    LET others == {c \in BusWorkers \ {b} : bus_pc[c] \in ModeSteps} IN
    [c \in BusWorkers |->
        IF c = b THEN others = {}
        ELSE IF c \in others THEN FALSE ELSE alone[c]]

\* executeControllerActions(actions) of the event, and stats.processed_events++.
\*   START_THROTTLE : START_THROTTLE_INCREASE
\*   START_BRAKE    : START_THROTTLE_DECREASE, START_BRAKE
\*   FINAL_STOP     : STOP_ALL_CONTROLLERS, SWITCH_TO_MANUAL_MODE
\* (stop() of a controller then joins its thread, which changes no state.)
\* The last action of FINAL_STOP enters setFlightMode(MANUAL), whose stores
\* are the steps SetFlightModeStore; the callback returns after them.
CbExec(b) ==
    /\ bus_pc[b] = "exec"
    /\ LET e == bus_item[b]
           go == {w \in StartedBy(e) : AuthorityPermits(w) /\ ~thread_running[w]}
       IN
       /\ exec_count' = [exec_count EXCEPT ![e] = @ + 1]
       /\ throttle_control_enabled' =
            IF e \in {"START_THROTTLE", "START_BRAKE"} THEN TRUE
            ELSE throttle_control_enabled
       /\ cruise_control_enabled' =
            IF e = "START_BRAKE" THEN FALSE ELSE cruise_control_enabled
       /\ brake_control_enabled' =
            IF e = "START_BRAKE" THEN TRUE ELSE brake_control_enabled
       /\ thread_running' =
            IF e = "FINAL_STOP"
            THEN [w \in Workers |->
                    IF w \in {"ti", "td", "br", "cr"} THEN FALSE
                    ELSE thread_running[w]]
            ELSE [w \in Workers |-> thread_running[w] \/ w \in go]
       /\ wpc' = [w \in Workers |->
                    IF w \in go /\ wpc[w] = "off" THEN "reg" ELSE wpc[w]]
       /\ IF e = "FINAL_STOP"
          THEN /\ bus_pc' = [bus_pc EXCEPT ![b] = "flight_mode"]
               /\ call_mode' = [call_mode EXCEPT ![b] = "MANUAL"]
               /\ alone' = AloneAtCall(b)
               /\ mode_done' = [mode_done EXCEPT !.calls = @ + 1]
               /\ processed_events' = processed_events
               /\ bus_item' = bus_item
          ELSE /\ bus_pc' = [bus_pc EXCEPT ![b] = NextCallback(e, "controller")]
               /\ processed_events' = [processed_events EXCEPT ![e] = @ + 1]
               /\ bus_item' = ItemAfter(b, NextCallback(e, "controller"))
               /\ UNCHANGED << call_mode, alone, mode_done >>
    /\ UNCHANGED << clockVars, current_step, starts, motionVars,
                    simulation_running, flight_mode, control_auth, localVars,
                    event_queue, total_events, dropped_events,
                    triggered_events, monVars, clockHist, init_throttle,
                    fell, reEvaluated, snapVars, writeHist, subVars,
                    recVars, listVars, mutexVars, scenarioVars, pitchVars,
                    rowVars, shutdownVars, raceVars >>

\* ------------------------------------------ SharedStateSpace::setFlightMode
FlightModes == {"MANUAL", "AUTO", "SEMI_AUTO"}

\* executeControllerActions, action type MODE, of an event table that holds
\* SWITCH_TO_AUTO_MODE, SWITCH_TO_MANUAL_MODE or SWITCH_TO_SEMI_AUTO_MODE:
\* a bus worker running that callback enters setFlightMode(m).
ModeAction(b, m) ==
    /\ bus_pc[b] = "wait"
    /\ LeastWaiting(b)
    /\ mode_done.calls < MaxModeCalls
    /\ bus_pc' = [bus_pc EXCEPT ![b] = "flight_mode"]
    /\ bus_item' = [bus_item EXCEPT ![b] = "none"]
    /\ call_mode' = [call_mode EXCEPT ![b] = m]
    /\ alone' = AloneAtCall(b)
    /\ mode_done' = [mode_done EXCEPT !.calls = @ + 1]
    /\ UNCHANGED << clockVars, workerVars, dataVars, event_queue,
                    total_events, dropped_events, processed_events,
                    triggered_events, monVars, clockHist, init_throttle,
                    exec_count, fell, reEvaluated, snapVars, writeHist,
                    subVars, recVars, listVars, mutexVars, scenarioVars,
                    pitchVars, rowVars, shutdownVars, raceVars >>

\* The position after each store of setFlightMode.
NextModeStep(pc) ==
    CASE pc = "flight_mode"    -> "pilot_throttle"
      [] pc = "pilot_throttle" -> "pilot_brake"
      [] pc = "pilot_brake"    -> "auto_throttle"
      [] pc = "auto_throttle"  -> "auto_brake"
      [] pc = "auto_brake"     -> "wait"

\* One store of setFlightMode(mode): flight_mode.store(mode), then the four
\* authority bits of the mode's case, each an atomic store of its own.  After
\* the last one the call returns and, when it ran for a queued event, the bus
\* worker counts the callback, stats.processed_events++, and goes on to the
\* event's next callback.  (The argument and the note of overlap are dead
\* once the call has returned.)
SetFlightModeStore(b) ==
    /\ bus_pc[b] \in ModeSteps
    /\ LET pc == bus_pc[b]
           auth == AuthorityOf(call_mode[b])
           after == IF pc = "auto_brake" /\ bus_item[b] \in Events
                    THEN NextCallback(bus_item[b], "controller")
                    ELSE NextModeStep(pc)
       IN
       /\ flight_mode' = IF pc = "flight_mode" THEN call_mode[b] ELSE flight_mode
       /\ control_auth' =
            CASE pc = "flight_mode"    -> control_auth
              [] pc = "pilot_throttle" ->
                    [control_auth EXCEPT !.pilot_throttle = auth.pilot_throttle]
              [] pc = "pilot_brake"    ->
                    [control_auth EXCEPT !.pilot_brake = auth.pilot_brake]
              [] pc = "auto_throttle"  ->
                    [control_auth EXCEPT !.auto_throttle = auth.auto_throttle]
              [] pc = "auto_brake"     ->
                    [control_auth EXCEPT !.auto_brake = auth.auto_brake]
       /\ bus_pc' = [bus_pc EXCEPT ![b] = after]
       /\ mode_done' =
            IF pc = "auto_brake"
            THEN [mode_done EXCEPT !.alone = alone[b]]
            ELSE mode_done
       /\ bus_item' = ItemAfter(b, after)
       /\ call_mode' = IF pc = "auto_brake"
                       THEN [call_mode EXCEPT ![b] = "MANUAL"] ELSE call_mode
       /\ alone' = IF pc = "auto_brake"
                   THEN [alone EXCEPT ![b] = TRUE] ELSE alone
       /\ processed_events' =
            IF pc = "auto_brake" /\ bus_item[b] \in Events
            THEN [processed_events EXCEPT ![bus_item[b]] = @ + 1]
            ELSE processed_events
    /\ UNCHANGED << clockVars, workerVars, motionVars, simulation_running,
                    throttle_control_enabled, brake_control_enabled,
                    cruise_control_enabled, localVars, event_queue,
                    total_events, dropped_events, triggered_events, monVars,
                    clockHist, init_throttle, exec_count, fell, reEvaluated,
                    snapVars, writeHist, subVars, recVars, listVars,
                    mutexVars, scenarioVars, pitchVars, rowVars,
                    shutdownVars, raceVars >>

\* ------------------------------------------- EventBus: other subscribers
\* subscribe(event, callback): lock; subscribers[event].push_back(callback).
\* Subscriptions are made while the system is set up, before the first
\* publish.
Subscribe(e, cb) ==
    /\ bus_mtx = 0
    /\ PublishCalls = 0
    /\ Len(subscribers["START_THROTTLE"]) + Len(subscribers["START_BRAKE"])
         + Len(subscribers["FINAL_STOP"]) < Cardinality(Events) + MaxSubscribe
    /\ \A k \in 1..Len(subscribers[e]) : subscribers[e][k] # cb
    /\ subscribers' = [subscribers EXCEPT ![e] = Append(@, cb)]
    /\ UNCHANGED << clockVars, workerVars, dataVars, busVars, monVars,
                    histVars, snapVars, writeHist, thrown, recVars,
                    listVars, mutexVars, scenarioVars, pitchVars, rowVars,
                    shutdownVars, raceVars >>

\* workerThread(): try { callback(item.data); stats.processed_events++; }
\* catch (...) { log }, for a callback that returns or throws.
\* catch (const std::exception&) / catch (...): the handler logs, and the
\* for-loop goes on with the callback after the one that threw.
CaughtMutant(e, cb) == "wait"
Caught(e, cb) == NextCallback(e, cb)

CbProbe(b, throws) ==
    /\ bus_pc[b] \in Probes
    /\ processed_events' =
         IF throws THEN processed_events
         ELSE [processed_events EXCEPT ![bus_item[b]] = @ + 1]
    /\ thrown' = IF throws THEN [thrown EXCEPT ![b] = bus_item[b]] ELSE thrown
    /\ LET after == IF throws THEN Caught(bus_item[b], bus_pc[b])
                              ELSE NextCallback(bus_item[b], bus_pc[b])
       IN /\ bus_pc' = [bus_pc EXCEPT ![b] = after]
          /\ bus_item' = ItemAfter(b, after)
    /\ UNCHANGED << clockVars, workerVars, dataVars, event_queue, call_mode,
                    total_events, dropped_events, triggered_events, monVars,
                    histVars, snapVars, writeHist, subscribers, recVars,
                    listVars, mutexVars, scenarioVars, pitchVars, rowVars,
                    shutdownVars, raceVars >>

\* --------------------------------------- EventMonitorThread::check_events
\* main_Taxi sets state.simulation_started = true before any thread starts.
simulation_started == TRUE

\* The trigger conditions of TaxiEvents::EVENT_DEFINITIONS.
TriggerCondition(e, run, t, x, v) ==
    CASE e = "START_THROTTLE" ->
            simulation_started /\ run /\ t >= THROTTLE_START_TIME
      [] e = "START_BRAKE"    -> x >= BRAKE_POSITION
      [] e = "FINAL_STOP"     -> v <= ZERO_VELOCITY_THRESHOLD

\* event.trigger_condition(state)
Cond(e) ==
    TriggerCondition(e, simulation_running, simulation_time, position, velocity)

\* local_triggered_events[name] = true;
LatchMutant(m, e) == m
Latch(m, e) == m \cup {e}

\* One iteration of  for (const auto& [name, event] : event_definitions):
\* read the latch; if it is clear and the condition holds, set it and
\* publish.  After the last event the loop body ends.
MonCheckEvent(e) ==
    /\ wpc["mon"] = "body"
    /\ e \in mon_todo
    /\ LET already_triggered == e \in local_triggered_events IN
       /\ IF ~already_triggered /\ Cond(e)
          THEN /\ local_triggered_events' = Latch(local_triggered_events, e)
               /\ BusPublish(e)
          ELSE UNCHANGED << local_triggered_events, total_events,
                            dropped_events, event_queue >>
       /\ reEvaluated' = IF already_triggered /\ e \in fell /\ Cond(e)
                         THEN reEvaluated \cup {e} ELSE reEvaluated
    /\ IF mon_todo = {e}
       THEN /\ mon_todo' = Events
            /\ wpc' = [wpc EXCEPT !["mon"] = "notify"]
       ELSE /\ mon_todo' = mon_todo \ {e}
            /\ wpc' = wpc
    /\ UNCHANGED << clockVars, current_step, thread_running, starts, dataVars,
                    bus_pc, bus_item, call_mode, processed_events,
                    triggered_events, clockHist, init_throttle, exec_count,
                    fell, alone, mode_done, snapVars, writeHist, subVars,
                    recVars, listVars, mutexVars, scenarioVars, pitchVars,
                    rowVars, shutdownVars, raceVars >>

\* The latched events whose condition is false for the given values.
Fallen(run, t, x, v) ==
    fell \cup {e \in local_triggered_events : ~TriggerCondition(e, run, t, x, v)}

\* Values the environment of the monitor stores.
Velocities == {0, 2 * ZERO_VELOCITY_THRESHOLD}
Positions == {INITIAL_POSITION, BRAKE_POSITION}
SimulationTimes == {0, THROTTLE_START_TIME}

\* process_raw_update: state_.velocity.store(msg.value), any value.
StoreVelocity(v) ==
    /\ velocity # v
    /\ velocity' = v
    /\ fell' = Fallen(simulation_running, simulation_time, position, v)
    /\ UNCHANGED << clockVars, workerVars, throttle, brake, position,
                    acceleration, simulation_time, controlVars, localVars,
                    busVars, monVars, clockHist, init_throttle, exec_count,
                    reEvaluated, alone, mode_done, snapVars, subVars,
                    recVars, listVars, mutexVars, scenarioVars, pitchVars,
                    rowVars, shutdownVars, raceVars >>
    /\ WriteObserved

\* process_raw_update: state_.position.store(msg.value), any value.
StorePosition(x) ==
    /\ position # x
    /\ position' = x
    /\ fell' = Fallen(simulation_running, simulation_time, x, velocity)
    /\ UNCHANGED << clockVars, workerVars, throttle, brake, velocity,
                    acceleration, simulation_time, controlVars, localVars,
                    busVars, monVars, clockHist, init_throttle, exec_count,
                    reEvaluated, alone, mode_done, snapVars, subVars,
                    recVars, listVars, mutexVars, scenarioVars, pitchVars,
                    rowVars, shutdownVars, raceVars >>
    /\ WriteObserved

\* state.simulation_time.store(...), any value.
StoreSimulationTime(t) ==
    /\ simulation_time # t
    /\ simulation_time' = t
    /\ fell' = Fallen(simulation_running, t, position, velocity)
    /\ UNCHANGED << clockVars, workerVars, throttle, brake, velocity,
                    position, acceleration, controlVars, localVars, busVars,
                    monVars, clockHist, init_throttle, exec_count,
                    reEvaluated, alone, mode_done, snapVars, writeHist,
                    subVars, recVars, listVars, mutexVars, scenarioVars,
                    pitchVars, rowVars, shutdownVars, raceVars >>

\* ----------------------------------------- SimulationControlThread::run
\* Space while running: paused = true; simulation_running = false; clock.pause().
UserPause ==
    /\ ~paused
    /\ paused' = TRUE
    /\ simulation_running' = FALSE
    /\ pausedInTick' = TickInProgress
    /\ resumed' = FALSE
    /\ fell' = Fallen(FALSE, simulation_time, position, velocity)
    /\ UNCHANGED << running, time_steps, current_time, registered_threads,
                    completed_threads, mtx, clk_pc, stop_pc, workerVars,
                    motionVars, throttle_control_enabled,
                    brake_control_enabled, cruise_control_enabled,
                    flight_mode, control_auth, localVars, busVars, monVars,
                    lastDone, wokeStopped, bodyAfterStop, stopReturned,
                    anyCompleted, committed, init_throttle, exec_count,
                    reEvaluated, alone, mode_done, snapVars, writeHist,
                    subVars, recVars, listVars, mutexVars, scenarioVars,
                    pitchVars, rowVars, shutdownVars, raceVars >>

\* Space while paused: paused = false; simulation_running = true; clock.resume().
UserResume ==
    /\ paused
    /\ paused' = FALSE
    /\ simulation_running' = TRUE
    /\ pausedInTick' = FALSE
    /\ resumed' = TRUE
    /\ fell' = Fallen(TRUE, simulation_time, position, velocity)
    /\ UNCHANGED << running, time_steps, current_time, registered_threads,
                    completed_threads, mtx, clk_pc, stop_pc, workerVars,
                    motionVars, throttle_control_enabled,
                    brake_control_enabled, cruise_control_enabled,
                    flight_mode, control_auth, localVars, busVars, monVars,
                    lastDone, wokeStopped, bodyAfterStop, stopReturned,
                    anyCompleted, committed, init_throttle, exec_count,
                    reEvaluated, alone, mode_done, snapVars, writeHist,
                    subVars, recVars, listVars, mutexVars, scenarioVars,
                    pitchVars, rowVars, shutdownVars, raceVars >>

\* ---------------------------------------------------------- specifications
\* The workers of the clock specifications: the state manager and the
\* throttle-increase controller.
CoreWorkers == {"sm", "ti"}

\* What other threads do to the workers: the main thread starts and stops the
\* state manager, the controller manager starts and stops the controller and
\* sets its enable flag on an event.
Environment ==
    \/ \E w \in CoreWorkers : WorkerStart(w)
    \/ \E w \in CoreWorkers : WorkerStop(w)
    \/ \E b \in BOOLEAN : SetThrottleControlEnabled(b)

\* The steps of the worker threads.
Threads ==
    \/ \E w \in CoreWorkers : WorkerStep(w)
    \/ \E w \in CoreWorkers : WorkerSpuriousWake(w)
    \/ SmDrain
    \/ TiRead
    \/ TiPush

\* The clock with pause() and resume() called at any time.
Next ==
    \/ ClockStep
    \/ ClockSpuriousWake
    \/ Pause
    \/ Resume
    \/ Environment
    \/ Threads

Spec == Init /\ [][Next]_vars

\* The clock with stop() called at any time.
NextStop ==
    \/ ClockRun
    \/ ClockSpuriousWake
    \/ StopFlag
    \/ StopNotify
    \/ Environment
    \/ Threads

SpecStop == Init /\ [][NextStop]_vars

\* The clock and the state manager with stop(), pause() and resume() called
\* at any time.  Every thread that can take a step eventually takes one; a
\* call of stop() that has begun returns.  Nothing obliges another thread to
\* call stop(), pause(), resume() or start(), nor a condition variable to
\* wake a waiter spuriously.
StateManagerStep == WorkerStep("sm") \/ SmDrain

NextLive ==
    \/ ClockStep
    \/ ClockSpuriousWake
    \/ StopFlag
    \/ StopNotify
    \/ Pause
    \/ Resume
    \/ WorkerStart("sm")
    \/ WorkerStop("sm")
    \/ StateManagerStep
    \/ WorkerSpuriousWake("sm")

Fairness ==
    /\ WF_vars(ClockStep)
    /\ WF_vars(StopNotify)
    /\ WF_vars(StateManagerStep)

SpecLive == Init /\ [][NextLive]_vars /\ Fairness

\* The state manager and the dynamics thread registered before the clock's
\* first tick and never stopped; the throttle of the initial state is an input.
StaticThrottles == {0, 500}

InitStatic == \E thr \in StaticThrottles : InitWith(thr, {"sm", "dyn"})

NextStatic ==
    \/ ClockTicks
    \/ ClockSpuriousWake
    \/ \E w \in {"sm", "dyn"} : WorkerCycle(w)
    \/ \E w \in {"sm", "dyn"} : WorkerSpuriousWake(w)
    \/ SmDrain
    \/ DynForce
    \/ DynIntegrate

SpecStatic == InitStatic /\ [][NextStatic]_vars

\* The event bus, its worker threads and the controller manager's callbacks.
NextBus ==
    \/ \E e \in Events : Publish(e)
    \/ \E b \in BusWorkers : BusPop(b)
    \/ \E b \in BusWorkers : CbCheck(b)
    \/ \E b \in BusWorkers : CbMark(b)
    \/ \E b \in BusWorkers : CbExec(b)
    \/ \E b \in BusWorkers : SetFlightModeStore(b)

SpecBus == Init /\ [][NextBus]_vars

\* Calls of setFlightMode by the bus workers, overlapping or not.
NextMode ==
    \/ \E b \in BusWorkers, m \in FlightModes : ModeAction(b, m)
    \/ \E b \in BusWorkers : SetFlightModeStore(b)

SpecMode == Init /\ [][NextMode]_vars

\* The authority check under a changing flight mode: the events whose actions
\* start controllers, each published once as the event monitor does, and MODE
\* actions that switch the flight mode one after the other.
StartEvents == {e \in Events : StartedBy(e) # {}}

PublishOnce(e) == total_events[e] = 0 /\ Publish(e)

BusPopLeast(b) == LeastWaiting(b) /\ BusPop(b)

ModeActionInTurn(b, m) ==
    /\ \A c \in BusWorkers : bus_pc[c] \notin ModeSteps
    /\ ModeAction(b, m)

NextGate ==
    \/ \E e \in StartEvents : PublishOnce(e)
    \/ \E b \in BusWorkers : BusPopLeast(b)
    \/ \E b \in BusWorkers : CbCheck(b)
    \/ \E b \in BusWorkers : CbMark(b)
    \/ \E b \in BusWorkers : CbExec(b)
    \/ \E b \in BusWorkers, m \in FlightModes : ModeActionInTurn(b, m)
    \/ \E b \in BusWorkers : SetFlightModeStore(b)

SpecGate == Init /\ [][NextGate]_vars

\* The clock and the event monitor, registered before the clock's first tick
\* and never stopped, the state changing under the monitor.
InitMon == InitWith(0, {"mon"})

NextMon ==
    \/ ClockTicks
    \/ ClockPaused
    \/ ClockSpuriousWake
    \/ WorkerCycle("mon")
    \/ WorkerSpuriousWake("mon")
    \/ \E e \in Events : MonCheckEvent(e)
    \/ \E v \in Velocities : StoreVelocity(v)
    \/ \E x \in Positions : StorePosition(x)
    \/ \E t \in SimulationTimes : StoreSimulationTime(t)
    \/ UserPause
    \/ UserResume

SpecMon == InitMon /\ [][NextMon]_vars

\* ------------------------------------------ SharedStateSpace::updateState
\* A thread calls updateState(new_state).
UpdateStateCall(u, s) ==
    /\ snap_pc[u] = "idle"
    /\ update_calls.begun < MaxCommits
    /\ snap_arg' = [snap_arg EXCEPT ![u] = s]
    /\ snap_pc' = [snap_pc EXCEPT ![u] = "lock"]
    /\ update_calls' = [update_calls EXCEPT !.begun = @ + 1]
    /\ UNCHANGED << clockVars, workerVars, dataVars, busVars, monVars,
                    histVars, current_state, state_version, state_mutex,
                    snap_local, last_commit, writeHist, subVars, recVars,
                    listVars, mutexVars, scenarioVars, pitchVars, rowVars,
                    shutdownVars, raceVars >>

\* std::lock_guard<std::mutex> lock(state_mutex);
UpdateStateLock(u) ==
    /\ snap_pc[u] = "lock"
    /\ state_mutex = "free"
    /\ state_mutex' = u
    /\ snap_pc' = [snap_pc EXCEPT ![u] = "copy"]
    /\ UNCHANGED << clockVars, workerVars, dataVars, busVars, monVars,
                    histVars, current_state, state_version, snap_arg,
                    snap_local, update_calls, last_commit, writeHist,
                    subVars, recVars, listVars, mutexVars, scenarioVars,
                    pitchVars, rowVars, shutdownVars, raceVars >>

\* current_state = new_state;
UpdateStateCopy(u) ==
    /\ snap_pc[u] = "copy"
    /\ current_state' = snap_arg[u]
    /\ snap_pc' = [snap_pc EXCEPT ![u] = "bump"]
    /\ UNCHANGED << clockVars, workerVars, dataVars, busVars, monVars,
                    histVars, state_version, state_mutex, snap_arg,
                    snap_local, update_calls, last_commit, writeHist,
                    subVars, recVars, listVars, mutexVars, scenarioVars,
                    pitchVars, rowVars, shutdownVars, raceVars >>

\* state_version.fetch_add(1, std::memory_order_release);
BumpVersionMutant(v) == v + 2
BumpVersion(v) == v + 1

UpdateStateBump(u) ==
    /\ snap_pc[u] = "bump"
    /\ state_version' = BumpVersion(state_version)
    /\ snap_pc' = [snap_pc EXCEPT ![u] = "unlock"]
    /\ UNCHANGED << clockVars, workerVars, dataVars, busVars, monVars,
                    histVars, current_state, state_mutex, snap_arg,
                    snap_local, update_calls, last_commit, writeHist,
                    subVars, recVars, listVars, mutexVars, scenarioVars,
                    pitchVars, rowVars, shutdownVars, raceVars >>

\* The lock_guard releases state_mutex and the call returns.
UpdateStateReturn(u) ==
    /\ snap_pc[u] = "unlock"
    /\ state_mutex' = "free"
    /\ snap_pc' = [snap_pc EXCEPT ![u] = "idle"]
    /\ update_calls' = [update_calls EXCEPT !.returned = @ + 1]
    /\ last_commit' = snap_arg[u]
    /\ unwritten' = TRUE
    /\ snap_arg' = [snap_arg EXCEPT ![u] = ZeroSnapshot]
    /\ UNCHANGED << clockVars, workerVars, dataVars, busVars, monVars,
                    histVars, current_state, state_version, snap_local,
                    seen, subVars, recVars, listVars, mutexVars,
                    scenarioVars, pitchVars, rowVars, shutdownVars,
                    raceVars >>

\* --------------------------------------------- SharedStateSpace::getState
\* std::unique_lock<std::mutex> lock(state_mutex);
GetStateLock(g) ==
    /\ snap_pc[g] \in {"idle", "returned"}
    /\ state_mutex = "free"
    /\ state_mutex' = g
    /\ snap_local' = [snap_local EXCEPT ![g] = ZeroSnapshot]
    /\ snap_pc' = [snap_pc EXCEPT ![g] = "position"]
    /\ seen' = {MotionState}
    /\ UNCHANGED << clockVars, workerVars, dataVars, busVars, monVars,
                    histVars, current_state, state_version, snap_arg,
                    update_calls, last_commit, unwritten, subVars, recVars,
                    listVars, mutexVars, scenarioVars, pitchVars, rowVars,
                    shutdownVars, raceVars >>

\* The loads of the initializer list, in the order of the fields.
SnapFields == << "position", "velocity", "acceleration", "throttle", "brake" >>

FieldIndex(f) == CHOOSE i \in 1..Len(SnapFields) : SnapFields[i] = f

NextField(f) ==
    IF FieldIndex(f) = Len(SnapFields) THEN "unlock"
                                       ELSE SnapFields[FieldIndex(f) + 1]

\* position.load(...), velocity.load(...), ...: one load of an atomic.
GetStateLoad(g) ==
    /\ \E i \in 1..Len(SnapFields) : snap_pc[g] = SnapFields[i]
    /\ snap_local' = [snap_local EXCEPT ![g][snap_pc[g]] = MotionState[snap_pc[g]]]
    /\ snap_pc' = [snap_pc EXCEPT ![g] = NextField(snap_pc[g])]
    /\ UNCHANGED << clockVars, workerVars, dataVars, busVars, monVars,
                    histVars, current_state, state_version, state_mutex,
                    snap_arg, update_calls, last_commit, writeHist, subVars,
                    recVars, listVars, mutexVars, scenarioVars, pitchVars,
                    rowVars, shutdownVars, raceVars >>

\* The StateSnapshot is returned and the lock released.
GetStateReturn(g) ==
    /\ snap_pc[g] = "unlock"
    /\ state_mutex' = "free"
    /\ snap_pc' = [snap_pc EXCEPT ![g] = "returned"]
    /\ UNCHANGED << clockVars, workerVars, dataVars, busVars, monVars,
                    histVars, current_state, state_version, snap_arg,
                    snap_local, update_calls, last_commit, writeHist,
                    subVars, recVars, listVars, mutexVars, scenarioVars,
                    pitchVars, rowVars, shutdownVars, raceVars >>

\* Threads committing and reading snapshots while another thread stores
\* velocities and positions to the atomics.
SnapInputs ==
    {[position |-> x, velocity |-> v, acceleration |-> 0, throttle |-> 0,
      brake |-> 0] : x \in Positions, v \in Velocities}

NextSnap ==
    \/ \E u \in Updaters, s \in SnapInputs : UpdateStateCall(u, s)
    \/ \E u \in Updaters : UpdateStateLock(u)
    \/ \E u \in Updaters : UpdateStateCopy(u)
    \/ \E u \in Updaters : UpdateStateBump(u)
    \/ \E u \in Updaters : UpdateStateReturn(u)
    \/ \E g \in Getters : GetStateLock(g)
    \/ \E g \in Getters : GetStateLoad(g)
    \/ \E g \in Getters : GetStateReturn(g)
    \/ \E v \in Velocities : StoreVelocity(v)
    \/ \E x \in Positions : StorePosition(x)

SpecSnap == Init /\ [][NextSnap]_vars

\* A thread reading snapshots while the state manager applies the messages
\* of the dynamics thread, tick after tick.
NextSnapTick ==
    \/ NextStatic
    \/ \E g \in Getters : GetStateLock(g)
    \/ \E g \in Getters : GetStateLoad(g)
    \/ \E g \in Getters : GetStateReturn(g)

SpecSnapTick == InitStatic /\ [][NextSnapTick]_vars

\* The bus near its capacity: one item short of MAX_QUEUE_SIZE published
\* and not yet popped, then MaxPublish more calls of publish while the bus
\* workers pop and run the callbacks.  (Pops are followed while the queue
\* holds at least QueueFill items.)
QueueFill == MAX_QUEUE_SIZE - 1

InitOverflow ==
    InitBacklog(0, 0, 0, {}, FALSE, [i \in 1..QueueFill |-> "START_BRAKE"])

PublishNearFull(e) ==
    /\ PublishCalls < QueueFill + MaxPublish
    /\ BusPublish(e)
    /\ UNCHANGED << clockVars, workerVars, dataVars, bus_pc, bus_item,
                    call_mode, processed_events, triggered_events, monVars,
                    histVars, snapVars, writeHist, subVars, recVars,
                    listVars, mutexVars, scenarioVars, pitchVars, rowVars,
                    shutdownVars, raceVars >>

BusPopNearFull(b) ==
    /\ Len(event_queue) >= QueueFill
    /\ BusPopLeast(b)

NextOverflow ==
    \/ \E e \in Events : PublishNearFull(e)
    \/ \E b \in BusWorkers : BusPopNearFull(b)
    \/ \E b \in BusWorkers : CbCheck(b)
    \/ \E b \in BusWorkers : CbMark(b)
    \/ \E b \in BusWorkers : CbExec(b)

SpecOverflow == InitOverflow /\ [][NextOverflow]_vars

\* Callbacks that throw: up to MaxSubscribe callbacks subscribed after the
\* controller manager's, then each event published at most once while the
\* bus workers run the callbacks.
NextThrow ==
    \/ \E e \in Events, cb \in Probes : Subscribe(e, cb)
    \/ \E e \in Events : PublishOnce(e)
    \/ \E b \in BusWorkers : BusPopLeast(b)
    \/ \E b \in BusWorkers : CbCheck(b)
    \/ \E b \in BusWorkers : CbMark(b)
    \/ \E b \in BusWorkers : CbExec(b)
    \/ \E b \in BusWorkers : SetFlightModeStore(b)
    \/ \E b \in BusWorkers, throws \in BOOLEAN : CbProbe(b, throws)

SpecThrow == Init /\ [][NextThrow]_vars

\* ------------------------------------------------ DataRecorderThread::run
\* FileLogger::recordData called by the recorder thread with time t (in
\* steps of dt): the row is skipped with a warning unless t > last_time_.
LoggerAccepts(t) == t * 10 > last_time_

\* The row the recorder builds: its time column and the values it loads.
Sample(t) ==
    [time |-> t, step |-> time_steps, position |-> position,
     velocity |-> velocity]

\* recordData(data) with data.at("time") = t, by the only thread recording.
RecordRow(t) ==
    /\ rec_mtx = "free"
    /\ IF LoggerAccepts(t)
       THEN /\ last_time_' = t * 10
            /\ rows' = Append(rows, t)
            /\ samples' = Append(samples, Sample(t))
            /\ warnings' = warnings
       ELSE /\ warnings' = warnings + 1
            /\ UNCHANGED << last_time_, rows, samples >>

\* The initial row: t = 0.0, the state as it is when the thread starts;
\* double next_time = 0.01;
RecInitialRow ==
    /\ wpc["rec"] = "initial"
    /\ RecordRow(0)
    /\ next_time' = 1
    /\ wpc' = [wpc EXCEPT !["rec"] = "loop"]
    /\ UNCHANGED << clockVars, current_step, thread_running, starts,
                    dataVars, busVars, monVars, histVars, snapVars,
                    writeHist, subVars, rec_mtx, rec_pc, rec_arg, listVars,
                    mutexVars, scenarioVars, pitchVars, shutdownVars,
                    raceVars >>

\* double current_clock_time = clock_.getCurrentTime();
\* if (current_clock_time >= next_time) { row with time next_time;
\*                                        next_time += 0.01; }
RecBody ==
    /\ wpc["rec"] = "body"
    /\ IF current_time >= next_time
       THEN /\ RecordRow(next_time)
            /\ next_time' = next_time + 1
       ELSE UNCHANGED << last_time_, rows, samples, warnings, next_time >>
    /\ wpc' = [wpc EXCEPT !["rec"] = "notify"]
    /\ UNCHANGED << clockVars, current_step, thread_running, starts,
                    dataVars, busVars, monVars, histVars, snapVars,
                    writeHist, subVars, rec_mtx, rec_pc, rec_arg, listVars,
                    mutexVars, scenarioVars, pitchVars, shutdownVars,
                    raceVars >>

\* ------------------------------------------------- FileLogger::recordData
\* A thread calls recordData(data) with data.at("time") = t.
RecordCall(r, t) ==
    /\ rec_pc[r] = "idle"
    /\ Len(rows) + warnings
         + Cardinality({q \in Recorders : rec_pc[q] # "idle"}) < MaxRecords
    /\ rec_arg' = [rec_arg EXCEPT ![r] = t]
    /\ rec_pc' = [rec_pc EXCEPT ![r] = "lock"]
    /\ UNCHANGED << clockVars, workerVars, dataVars, busVars, monVars,
                    histVars, snapVars, writeHist, subVars, last_time_,
                    rec_mtx, rows, warnings, listVars, mutexVars,
                    scenarioVars, pitchVars, rowVars, shutdownVars,
                    raceVars >>

\* std::lock_guard<std::mutex> lock(mtx_);
RecordLock(r) ==
    /\ rec_pc[r] = "lock"
    /\ rec_mtx = "free"
    /\ rec_mtx' = r
    /\ rec_pc' = [rec_pc EXCEPT ![r] = "check"]
    /\ UNCHANGED << clockVars, workerVars, dataVars, busVars, monVars,
                    histVars, snapVars, writeHist, subVars, last_time_,
                    rec_arg, rows, warnings, listVars, mutexVars,
                    scenarioVars, pitchVars, rowVars, shutdownVars,
                    raceVars >>

\* if (current_time <= last_time_) { warning; return; }
\* last_time_ = current_time;
RecordCheck(r) ==
    /\ rec_pc[r] = "check"
    /\ IF rec_arg[r] <= last_time_
       THEN /\ warnings' = warnings + 1
            /\ rec_mtx' = "free"
            /\ rec_pc' = [rec_pc EXCEPT ![r] = "idle"]
            /\ rec_arg' = [rec_arg EXCEPT ![r] = 0]
            /\ last_time_' = last_time_
       ELSE /\ last_time_' = rec_arg[r]
            /\ rec_pc' = [rec_pc EXCEPT ![r] = "write"]
            /\ UNCHANGED << warnings, rec_mtx, rec_arg >>
    /\ UNCHANGED << clockVars, workerVars, dataVars, busVars, monVars,
                    histVars, snapVars, writeHist, subVars, rows, listVars,
                    mutexVars, scenarioVars, pitchVars, rowVars,
                    shutdownVars, raceVars >>

\* std::fixed << std::setprecision(2) << current_time: the time as the row
\* shows it, rounded to 1/100 s.  (The inputs of the model are no ties.)
Fixed2(t) == (t + 5) \div 10

\* data_file_ << ... << current_time << ... << std::endl;  (the file opens)
RecordWrite(r) ==
    /\ rec_pc[r] = "write"
    /\ rows' = Append(rows, Fixed2(rec_arg[r]))
    /\ rec_mtx' = "free"
    /\ rec_pc' = [rec_pc EXCEPT ![r] = "idle"]
    /\ rec_arg' = [rec_arg EXCEPT ![r] = 0]
    /\ UNCHANGED << clockVars, workerVars, dataVars, busVars, monVars,
                    histVars, snapVars, writeHist, subVars, last_time_,
                    warnings, listVars, mutexVars, scenarioVars, pitchVars,
                    rowVars, shutdownVars, raceVars >>

\* Threads recording rows at times around 1.23 s and 1.24 s.
RecordTimes == {1230, 1234, 1240}

NextRecord ==
    \/ \E r \in Recorders, t \in RecordTimes : RecordCall(r, t)
    \/ \E r \in Recorders : RecordLock(r)
    \/ \E r \in Recorders : RecordCheck(r)
    \/ \E r \in Recorders : RecordWrite(r)

SpecRecord == Init /\ [][NextRecord]_vars

\* The controllers writing throttle and brake: the state manager and two of
\* the four controllers registered before the clock's first tick, the
\* control flags set, throttle and brake near the ends of their ranges, the
\* velocity below or above the cruise target.
Controllers == {"ti", "td", "br", "cr"}
ControllerPairs == {ws \in SUBSET Controllers : Cardinality(ws) = 2}
CtlThrottles == {1, MAX_THROTTLE}
CtlBrakes == {0, MAX_BRAKE - 1}
CtlVelocities == {0, CRUISE_TARGET + 20000000}

InitCtl ==
    \E thr \in CtlThrottles, brk \in CtlBrakes, vel \in CtlVelocities,
       ws \in ControllerPairs :
        InitState(thr, brk, vel, {"sm"} \cup ws, TRUE)

NextCtl ==
    \/ ClockTicks
    \/ ClockSpuriousWake
    \/ \E w \in Controllers \cup {"sm"} : WorkerCycle(w)
    \/ \E w \in Controllers \cup {"sm"} : WorkerSpuriousWake(w)
    \/ SmDrain
    \/ TiRead
    \/ TiPush
    \/ TdRead
    \/ TdPush
    \/ BrRead
    \/ BrStore
    \/ CrRead
    \/ CrStoreThrottle
    \/ CrStoreBrake

SpecCtl == InitCtl /\ [][NextCtl]_vars

\* Braking at small positive speed: the state manager and the dynamics
\* thread registered before the clock's first tick, throttle 0, full or no
\* brake, a velocity just above the rest threshold or a taxi speed.
BrakingBrakes == {0, MAX_BRAKE}
BrakingVelocities == {REST_VELOCITY + 2000, 20000000}

InitBraking ==
    \E brk \in BrakingBrakes, vel \in BrakingVelocities :
        InitState(0, brk, vel, {"sm", "dyn"}, FALSE)

SpecBraking == InitBraking /\ [][NextStatic]_vars

\* The dynamics thread as main starts it: after the clock thread, so that it
\* registers while the clock is already ticking.
NextDyn ==
    \/ ClockRun
    \/ ClockSpuriousWake
    \/ WorkerStart("dyn")
    \/ WorkerRegister("dyn")
    \/ WorkerCycle("dyn")
    \/ WorkerSpuriousWake("dyn")
    \/ DynForce
    \/ DynIntegrate

SpecDyn == Init /\ [][NextDyn]_vars

\* The Taxi scenario from its initial state: the state manager, the
\* dynamics thread and the event monitor registered before the clock's first
\* tick, the bus workers running the controller manager's callbacks.
InitTaxi == InitWith(0, {"sm", "dyn", "mon"})

NextTaxi ==
    \/ ClockTicks
    \/ ClockSpuriousWake
    \/ \E w \in {"sm", "dyn", "mon"} : WorkerCycle(w)
    \/ \E w \in {"sm", "dyn", "mon"} : WorkerSpuriousWake(w)
    \/ SmDrain
    \/ DynForce
    \/ DynIntegrate
    \/ \E e \in Events : MonCheckEvent(e)
    \/ \E b \in BusWorkers : BusPopLeast(b)
    \/ \E b \in BusWorkers : CbCheck(b)
    \/ \E b \in BusWorkers : CbMark(b)
    \/ \E b \in BusWorkers : CbExec(b)
    \/ \E b \in BusWorkers : SetFlightModeStore(b)

SpecTaxi == InitTaxi /\ [][NextTaxi]_vars

\* The events of the Taxi scenario, each published once by the monitor, and
\* the bus workers running the controller manager's callbacks; nothing else
\* changes the flight mode.
NextTaxiEvents ==
    \/ \E e \in Events : PublishOnce(e)
    \/ \E b \in BusWorkers : BusPopLeast(b)
    \/ \E b \in BusWorkers : CbCheck(b)
    \/ \E b \in BusWorkers : CbMark(b)
    \/ \E b \in BusWorkers : CbExec(b)
    \/ \E b \in BusWorkers : SetFlightModeStore(b)

SpecTaxiEvents == Init /\ [][NextTaxiEvents]_vars

\* ------------------------- ControllerManagerThread::executeControllerActions
\* loadDefaultConfig: the built-in mapping of each action.  state_settings is
\* the std::map as a set of (variable, value) pairs.
DefaultConfig(a) ==
    CASE a = "START_THROTTLE_INCREASE" ->
            [controller_name |-> "ti", action_type |-> "CONTROLLER",
             state_settings |-> {<< "throttle_control_enabled", "true" >>}]
      [] a = "STOP_THROTTLE_INCREASE" ->
            [controller_name |-> "ti", action_type |-> "CONTROLLER",
             state_settings |-> {<< "throttle_control_enabled", "false" >>}]
      [] a = "START_THROTTLE_DECREASE" ->
            [controller_name |-> "td", action_type |-> "CONTROLLER",
             state_settings |-> {<< "throttle_control_enabled", "true" >>}]
      [] a = "START_BRAKE" ->
            [controller_name |-> "br", action_type |-> "CONTROLLER",
             state_settings |-> {<< "cruise_control_enabled", "false" >>,
                                 << "brake_control_enabled", "true" >>}]
      [] a = "STOP_ALL_CONTROLLERS" ->
            [controller_name |-> "STOP_ALL", action_type |-> "STOP_ALL",
             state_settings |-> {}]
      [] a = "SWITCH_TO_AUTO_MODE" ->
            [controller_name |-> "MODE", action_type |-> "MODE",
             state_settings |-> {<< "flight_mode", "AUTO" >>}]
      [] a = "SWITCH_TO_MANUAL_MODE" ->
            [controller_name |-> "MODE", action_type |-> "MODE",
             state_settings |-> {<< "flight_mode", "MANUAL" >>}]

\* getActionConfig: if (!config_loaded) loadDefaultConfig();  the map after it.
ConfigsAtLookup ==
    IF config_loaded THEN action_configs
    ELSE [a \in ActionNames |-> DefaultConfig(a)]

\* action_name.rfind("START_", 0) == 0 : the names that begin with START_.
IsStartAction(a) ==
    a \in {"START_THROTTLE_INCREASE", "START_THROTTLE_DECREASE", "START_BRAKE"}

\* action_name.rfind("STOP_", 0) == 0 : the names that begin with STOP_.
IsStopAction(a) == a \in {"STOP_THROTTLE_INCREASE", "STOP_ALL_CONTROLLERS"}

\* applyStateSettings: the value a flag has after the settings are applied.
SettingAppliedMutant(settings, var, old) == old
SettingApplied(settings, var, old) ==
    IF \E p \in settings : p[1] = var
    THEN \E p \in settings : p[1] = var /\ p[2] = "true"
    ELSE old

\* The value of the flight_mode setting of a MODE action, "none" without one.
ModeSetting(settings) ==
    IF \E p \in settings : p[1] = "flight_mode"
    THEN (CHOOSE p \in settings : p[1] = "flight_mode")[2]
    ELSE "none"

\* The for-loop goes on to the next action; the call returns after the last.
ActAdvance ==
    /\ act_todo' = Tail(act_todo)
    /\ act_pc' = IF Len(act_todo) > 1 THEN "fetch" ELSE "idle"

\* A bus worker's callback calls executeControllerActions(actions).
ExecuteControllerActions(actions) ==
    /\ act_pc = "idle"
    /\ actions # << >>
    /\ act_todo' = actions
    /\ act_pc' = "fetch"
    /\ act_calls' = act_calls + 1
    /\ UNCHANGED << clockVars, workerVars, dataVars, busVars, monVars,
                    histVars, snapVars, writeHist, subVars, recVars,
                    action_configs, config_loaded, act_rest, act_ctl,
                    act_log, mutexVars, scenarioVars, pitchVars, rowVars,
                    shutdownVars, raceVars >>

\* config = getActionConfig(action_name); if (!config) continue;  then the
\* branch on config->action_type.
ActFetch ==
    /\ act_pc = "fetch"
    /\ LET a == Head(act_todo)
           cfg == ConfigsAtLookup[a]
       IN
       /\ action_configs' = ConfigsAtLookup
       /\ config_loaded' = TRUE
       /\ CASE cfg = NoConfig ->
                 /\ ActAdvance
                 /\ act_log' = Append(act_log, << a, "skipped" >>)
                 /\ act_rest' = act_rest
            [] cfg.action_type = "CONTROLLER" ->
                 /\ act_pc' = "settings"
                 /\ UNCHANGED << act_todo, act_log, act_rest >>
            [] cfg.action_type = "STOP_ALL" ->
                 /\ act_pc' = "stop_all"
                 /\ act_rest' = Controllers
                 /\ act_log' = Append(act_log, << a, "stop_all" >>)
                 /\ act_todo' = act_todo
            [] cfg.action_type = "MODE" ->
                 /\ act_pc' = "mode"
                 /\ UNCHANGED << act_todo, act_log, act_rest >>
    /\ UNCHANGED << clockVars, workerVars, dataVars, busVars, monVars,
                    histVars, snapVars, writeHist, subVars, recVars,
                    act_ctl, act_calls, mutexVars, scenarioVars, pitchVars,
                    rowVars, shutdownVars, raceVars >>

\* applyStateSettings(config->state_settings), then the branch on the prefix
\* of the action's name.
ActApplySettings ==
    /\ act_pc = "settings"
    /\ LET a == Head(act_todo)
           settings == action_configs[a].state_settings
       IN
       /\ throttle_control_enabled' =
            SettingApplied(settings, "throttle_control_enabled",
                           throttle_control_enabled)
       /\ brake_control_enabled' =
            SettingApplied(settings, "brake_control_enabled",
                           brake_control_enabled)
       /\ cruise_control_enabled' =
            SettingApplied(settings, "cruise_control_enabled",
                           cruise_control_enabled)
       /\ act_log' = Append(act_log, << a, "settings" >>)
       /\ IF IsStartAction(a) THEN act_pc' = "start" /\ act_todo' = act_todo
          ELSE IF IsStopAction(a) THEN act_pc' = "stop" /\ act_todo' = act_todo
          ELSE ActAdvance
    /\ UNCHANGED << clockVars, workerVars, motionVars, simulation_running,
                    flight_mode, control_auth, localVars, busVars, monVars,
                    histVars, snapVars, writeHist, subVars, recVars,
                    action_configs, config_loaded, act_rest, act_ctl,
                    act_calls, mutexVars, scenarioVars, pitchVars, rowVars,
                    shutdownVars, raceVars >>

\* startController(config->controller_name): the authority check, then
\* start() of the controller: if (!running) { running = true; thread = ... }
ActStart ==
    /\ act_pc = "start"
    /\ LET a == Head(act_todo)
           w == action_configs[a].controller_name
           go == AuthorityPermits(w) /\ ~thread_running[w]
       IN
       /\ thread_running' = [thread_running EXCEPT ![w] = @ \/ go]
       /\ wpc' = [wpc EXCEPT ![w] = IF go THEN "reg" ELSE @]
       /\ starts' = [starts EXCEPT ![w] = IF go THEN @ + 1 ELSE @]
       /\ act_log' = Append(act_log, << a, "start" >>)
    /\ ActAdvance
    /\ UNCHANGED << clockVars, current_step, dataVars, busVars, monVars,
                    histVars, snapVars, writeHist, subVars, recVars,
                    action_configs, config_loaded, act_rest, act_ctl,
                    act_calls, mutexVars, scenarioVars, pitchVars, rowVars,
                    shutdownVars, raceVars >>

\* stopController(config->controller_name): stop() of the controller:
\* if (running) { running = false; ... join ... }
ActStop ==
    /\ act_pc = "stop"
    /\ LET a == Head(act_todo)
           w == action_configs[a].controller_name
       IN
       /\ act_log' = Append(act_log, << a, "stop" >>)
       /\ IF thread_running[w]
          THEN /\ thread_running' = [thread_running EXCEPT ![w] = FALSE]
               /\ act_ctl' = w
               /\ act_pc' = "join"
               /\ act_todo' = act_todo
          ELSE /\ ActAdvance
               /\ UNCHANGED << thread_running, act_ctl >>
    /\ UNCHANGED << clockVars, wpc, current_step, starts, dataVars, busVars,
                    monVars, histVars, snapVars, writeHist, subVars, recVars,
                    action_configs, config_loaded, act_rest, act_calls,
                    mutexVars, scenarioVars, pitchVars, rowVars,
                    shutdownVars, raceVars >>

\* controller_thread.join() returns when the thread has left run(), that is
\* after its unregisterThread().
JoinReturnsMutant(w) == TRUE
JoinReturns(w) == wpc[w] = "off"

\* stop(): if (controller_thread.joinable()) controller_thread.join();
\* of a STOP_ action, or of one controller of stopAllControllers.
ActJoin ==
    /\ act_pc \in {"join", "join_all"}
    /\ JoinReturns(act_ctl)
    /\ act_ctl' = "none"
    /\ IF act_pc = "join" THEN ActAdvance
       ELSE act_pc' = "stop_all" /\ act_todo' = act_todo
    /\ UNCHANGED << clockVars, workerVars, dataVars, busVars, monVars,
                    histVars, snapVars, writeHist, subVars, recVars,
                    action_configs, config_loaded, act_rest, act_calls,
                    act_log, mutexVars, scenarioVars, pitchVars, rowVars,
                    shutdownVars, raceVars >>

\* stopAllControllers: for (auto& [name, controller] : controllers)
\* controller->stop();  the order is that of the unordered_map.
ActStopAll ==
    /\ act_pc = "stop_all"
    /\ IF act_rest = {}
       THEN /\ ActAdvance
            /\ UNCHANGED << thread_running, act_rest, act_ctl >>
       ELSE \E w \in act_rest :
            /\ act_rest' = act_rest \ {w}
            /\ act_todo' = act_todo
            /\ IF thread_running[w]
               THEN /\ thread_running' = [thread_running EXCEPT ![w] = FALSE]
                    /\ act_ctl' = w
                    /\ act_pc' = "join_all"
               ELSE UNCHANGED << thread_running, act_ctl, act_pc >>
    /\ UNCHANGED << clockVars, wpc, current_step, starts, dataVars, busVars,
                    monVars, histVars, snapVars, writeHist, subVars, recVars,
                    action_configs, config_loaded, act_calls, act_log,
                    mutexVars, scenarioVars, pitchVars, rowVars,
                    shutdownVars, raceVars >>

\* setFlightMode(mode_it->second) when the config has a flight_mode setting:
\* the stores of SharedStateSpace::setFlightMode, by the one calling thread.
ActMode ==
    /\ act_pc = "mode"
    /\ LET a == Head(act_todo)
           m == ModeSetting(action_configs[a].state_settings)
       IN
       /\ flight_mode' = IF m \in FlightModes THEN m ELSE flight_mode
       /\ control_auth' = IF m \in FlightModes THEN AuthorityOf(m)
                          ELSE control_auth
       /\ act_log' = Append(act_log, << a, "mode" >>)
    /\ ActAdvance
    /\ UNCHANGED << clockVars, workerVars, motionVars, simulation_running,
                    throttle_control_enabled, brake_control_enabled,
                    cruise_control_enabled, localVars, busVars, monVars,
                    histVars, snapVars, writeHist, subVars, recVars,
                    action_configs, config_loaded, act_rest, act_ctl,
                    act_calls, mutexVars, scenarioVars, pitchVars, rowVars,
                    shutdownVars, raceVars >>

\* One step of the thread inside executeControllerActions.
ActStep ==
    \/ ActFetch
    \/ ActApplySettings
    \/ ActStart
    \/ ActStop
    \/ ActJoin
    \/ ActStopAll
    \/ ActMode

\* The abort-takeoff scenario: the action lists of START_THROTTLE and of
\* ABORT_TAKEOFF.
StartThrottleActions == << "SWITCH_TO_AUTO_MODE", "START_THROTTLE_INCREASE" >>
AbortTakeoffActions == << "STOP_THROTTLE_INCREASE", "START_THROTTLE_DECREASE",
                          "START_BRAKE" >>

\* START_THROTTLE fires once the clock runs, ABORT_TAKEOFF later, with the
\* throttle-increase controller running; the controllers tick with the clock.
ExecuteStartThrottle ==
    /\ running
    /\ act_calls = 0
    /\ ExecuteControllerActions(StartThrottleActions)

ExecuteAbortTakeoff ==
    /\ act_calls = 1
    /\ flight_mode = "AUTO"
    /\ thread_running["ti"]
    /\ ExecuteControllerActions(AbortTakeoffActions)

AbortControllers == {"ti", "td", "br"}

NextAbort ==
    \/ ClockRun
    \/ ClockSpuriousWake
    \/ \E w \in AbortControllers : WorkerStep(w)
    \/ \E w \in AbortControllers : WorkerSpuriousWake(w)
    \/ TiRead
    \/ TiPush
    \/ TdRead
    \/ TdPush
    \/ BrRead
    \/ BrStore
    \/ ExecuteStartThrottle
    \/ ExecuteAbortTakeoff
    \/ ActFetch
    \/ ActApplySettings
    \/ ActStart
    \/ ActStop
    \/ ActJoin
    \/ ActMode

SpecAbort == Init /\ [][NextAbort]_vars

\* ------------------------------------------ ControllerActionsConfig::loadConfig
\* A line of controller_actions_config.txt:  name = controller, var=value;...
\* with the fields parseConfig extracts, or a line without '='.
ConfigLine(a) ==
    [kind |-> "entry", action_name |-> a,
     controller_name |-> DefaultConfig(a).controller_name,
     state_settings |-> DefaultConfig(a).state_settings]

MalformedLine ==
    [kind |-> "no_equal", action_name |-> "", controller_name |-> "",
     state_settings |-> {}]

\* getActionType(controller_name)
GetActionType(c) ==
    IF c = "STOP_ALL" THEN "STOP_ALL"
    ELSE IF c = "MODE" THEN "MODE" ELSE "CONTROLLER"

\* parseConfig(config_str)
ParseConfig(line) ==
    [controller_name |-> line.controller_name,
     state_settings |-> line.state_settings,
     action_type |-> GetActionType(line.controller_name)]

\* The while-loop of loadConfig over the lines of the file: a line without
\* '=' is skipped with a warning, every other one is parsed and stored.
RECURSIVE LoadLines(_, _)
LoadLines(lines, m) ==
    IF lines = << >> THEN m
    ELSE LET l == Head(lines) IN
         LoadLines(Tail(lines),
                   IF l.kind = "entry"
                   THEN [m EXCEPT ![l.action_name] = ParseConfig(l)]
                   ELSE m)

\* A file with the default line of every action, and the files that differ
\* from it in one line: the line is missing, or has no '='.
FileOrder == << "START_THROTTLE_INCREASE", "STOP_THROTTLE_INCREASE",
                "START_THROTTLE_DECREASE", "START_BRAKE",
                "STOP_ALL_CONTROLLERS", "SWITCH_TO_AUTO_MODE",
                "SWITCH_TO_MANUAL_MODE" >>
FullFile == [i \in 1..Len(FileOrder) |-> ConfigLine(FileOrder[i])]
WithoutLine(k) ==
    SubSeq(FullFile, 1, k - 1) \o SubSeq(FullFile, k + 1, Len(FullFile))
MalformedAt(k) == [FullFile EXCEPT ![k] = MalformedLine]
ConfigFiles ==
    {FullFile} \cup {WithoutLine(k) : k \in 1..Len(FullFile)}
               \cup {MalformedAt(k) : k \in 1..Len(FullFile)}

\* main: ControllerActionsConfig::loadConfig("controller_actions_config.txt")
\* with the file present, before any thread is started.
LoadConfig(file) ==
    /\ ~config_loaded
    /\ act_calls = 0
    /\ action_configs' = LoadLines(file, action_configs)
    /\ config_loaded' = TRUE
    /\ UNCHANGED << clockVars, workerVars, dataVars, busVars, monVars,
                    histVars, snapVars, writeHist, subVars, recVars,
                    act_pc, act_todo, act_rest, act_ctl, act_calls,
                    act_log, mutexVars, scenarioVars, pitchVars, rowVars,
                    shutdownVars, raceVars >>

\* The same call when the file cannot be opened: loadDefaultConfig().
LoadConfigNoFile ==
    /\ ~config_loaded
    /\ act_calls = 0
    /\ action_configs' = [a \in ActionNames |-> DefaultConfig(a)]
    /\ config_loaded' = TRUE
    /\ UNCHANGED << clockVars, workerVars, dataVars, busVars, monVars,
                    histVars, snapVars, writeHist, subVars, recVars,
                    act_pc, act_todo, act_rest, act_ctl, act_calls,
                    act_log, mutexVars, scenarioVars, pitchVars, rowVars,
                    shutdownVars, raceVars >>

\* The action lists of the taxi scenario's events.
TaxiActionLists ==
    { << "START_THROTTLE_INCREASE" >>,
      << "START_THROTTLE_DECREASE", "START_BRAKE" >>,
      << "STOP_ALL_CONTROLLERS", "SWITCH_TO_MANUAL_MODE" >> }

\* An event of the taxi scenario fires after the configuration was loaded.
ExecuteTaxiActions(actions) ==
    /\ config_loaded
    /\ act_calls < MaxLists
    /\ ExecuteControllerActions(actions)

NextConfig ==
    \/ \E file \in ConfigFiles : LoadConfig(file)
    \/ LoadConfigNoFile
    \/ \E actions \in TaxiActionLists : ExecuteTaxiActions(actions)
    \/ ActFetch
    \/ ActApplySettings
    \/ ActStart
    \/ ActStopAll
    \/ ActMode

SpecConfig == Init /\ [][NextConfig]_vars

\* The integrator below the rest threshold: the state manager and the
\* dynamics thread, from a state at rest or creeping at 0.005 m/s, with the
\* throttle closed or giving less thrust than the static friction.
HoldThrottles == {0, 30}
HoldVelocities == {0, REST_VELOCITY \div 2}

InitHold ==
    \E thr \in HoldThrottles, vel \in HoldVelocities :
        InitState(thr, 0, vel, {"sm", "dyn"}, FALSE)

SpecHold == InitHold /\ [][NextStatic]_vars

\* The throttle ramp: the state manager and the throttle-increase controller
\* registered before the first tick, throttle_control_enabled set, throttle 0
\* and no other thread writing it.
InitRamp == InitState(0, 0, 0, {"sm", "ti"}, TRUE)

NextRamp ==
    \/ ClockTicks
    \/ ClockSpuriousWake
    \/ \E w \in {"sm", "ti"} : WorkerCycle(w)
    \/ \E w \in {"sm", "ti"} : WorkerSpuriousWake(w)
    \/ SmDrain
    \/ TiRead
    \/ TiPush

SpecRamp == InitRamp /\ [][NextRamp]_vars

\* The action lists of three events executed one after the other, the first
\* once the clock runs: START_THROTTLE and ABORT_TAKEOFF of the abort-takeoff
\* scenario, then FINAL_STOP.
FinalStopActions == << "STOP_ALL_CONTROLLERS", "SWITCH_TO_MANUAL_MODE" >>
ActionLists == << StartThrottleActions, AbortTakeoffActions, FinalStopActions >>

ExecuteInTurn ==
    /\ running
    /\ act_calls < Len(ActionLists)
    /\ ExecuteControllerActions(ActionLists[act_calls + 1])

NextActions ==
    \/ ClockRun
    \/ ClockSpuriousWake
    \/ \E w \in AbortControllers : WorkerStep(w)
    \/ \E w \in AbortControllers : WorkerSpuriousWake(w)
    \/ TiRead
    \/ TiPush
    \/ TdRead
    \/ TdPush
    \/ BrRead
    \/ BrStore
    \/ ExecuteInTurn
    \/ ActFetch
    \/ ActApplySettings
    \/ ActStart
    \/ ActStop
    \/ ActJoin
    \/ ActStopAll
    \/ ActMode

SpecActions == Init /\ [][NextActions]_vars

\* The throttle-decrease and brake controllers registered before the first
\* tick with their enable flags off, throttle and brake at one half; the
\* flags are set and cleared by the action lists of events at any time.
InitDisabled ==
    InitState(MAX_THROTTLE \div 2, MAX_BRAKE \div 2, 0, {"td", "br"}, FALSE)

NextDisabled ==
    \/ ClockTicks
    \/ ClockSpuriousWake
    \/ \E w \in {"td", "br"} : WorkerCycle(w)
    \/ \E w \in {"td", "br"} : WorkerSpuriousWake(w)
    \/ TdRead
    \/ TdPush
    \/ BrRead
    \/ BrStore
    \/ \E b \in BOOLEAN : SetThrottleControlEnabled(b)
    \/ \E b \in BOOLEAN : SetBrakeControlEnabled(b)

SpecDisabled == InitDisabled /\ [][NextDisabled]_vars

\* ------------------------------------ EventBus: a callback that re-publishes
\* A callback subscribed to START_THROTTLE that calls bus.publish(START_BRAKE)
\* and returns:  publish takes its lock_guard on mtx, enqueues and releases;
\* back in workerThread, stats.processed_events++ and the next callback.
CbRepublish(b) ==
    /\ bus_pc[b] = "republish"
    /\ BusPublish("START_BRAKE")
    /\ processed_events' = [processed_events EXCEPT ![bus_item[b]] = @ + 1]
    /\ bus_pc' = [bus_pc EXCEPT ![b] = NextCallback(bus_item[b], "republish")]
    /\ bus_item' = ItemAfter(b, NextCallback(bus_item[b], "republish"))
    /\ UNCHANGED << clockVars, workerVars, dataVars, call_mode,
                    triggered_events, monVars, histVars, snapVars, writeHist,
                    subVars, recVars, listVars, mutexVars, scenarioVars,
                    pitchVars, rowVars, shutdownVars, raceVars >>

\* The monitor publishes START_THROTTLE and FINAL_STOP; START_BRAKE is only
\* published by the callback.
MonitorPublished == {"START_THROTTLE", "FINAL_STOP"}

\* One step of a bus worker.
BusWorkerStep ==
    \/ \E b \in BusWorkers : BusPopLeast(b)
    \/ \E b \in BusWorkers : CbCheck(b)
    \/ \E b \in BusWorkers : CbMark(b)
    \/ \E b \in BusWorkers : CbExec(b)
    \/ \E b \in BusWorkers : SetFlightModeStore(b)
    \/ \E b \in BusWorkers : CbRepublish(b)

NextRepublish ==
    \/ Subscribe("START_THROTTLE", "republish")
    \/ \E e \in MonitorPublished : PublishOnce(e)
    \/ \E b \in BusWorkers : BusPopLeast(b)
    \/ \E b \in BusWorkers : CbCheck(b)
    \/ \E b \in BusWorkers : CbMark(b)
    \/ \E b \in BusWorkers : CbExec(b)
    \/ \E b \in BusWorkers : SetFlightModeStore(b)
    \/ \E b \in BusWorkers : CbRepublish(b)

\* The bus workers are threads of their own: one that can take a step is
\* scheduled.
SpecRepublish ==
    Init /\ [][NextRepublish]_vars /\ WF_vars(BusWorkerStep)

\* ------------------------------------------- the cruise target of a scenario
\* initializeTaxiState: state.target_speed.store(TaxiConfig::TARGET_SPEED),
\* the value read from the TARGET_SPEED key of the configuration file; done
\* before the clock publishes its first tick.
StoreTargetSpeed(t) ==
    /\ time_steps = 0
    /\ target_speed # t
    /\ target_speed' = t
    /\ UNCHANGED << clockVars, workerVars, dataVars, busVars, monVars,
                    histVars, snapVars, writeHist, subVars, recVars,
                    listVars, mutexVars, pitchVars, rowVars, shutdownVars,
                    raceVars >>

\* The cruise controller alone on the clock, cruise control enabled, at a
\* velocity with configured targets on both sides of it.
CruiseVelocities == {50000000, 150000000}
CruiseTargets == {20000000, 80000000, 120000000, 180000000}

InitCruise ==
    \E vel \in CruiseVelocities : InitState(0, 0, vel, {"cr"}, TRUE)

NextCruise ==
    \/ \E t \in CruiseTargets : StoreTargetSpeed(t)
    \/ ClockTicks
    \/ ClockSpuriousWake
    \/ WorkerCycle("cr")
    \/ WorkerSpuriousWake("cr")
    \/ CrRead
    \/ CrStoreThrottle
    \/ CrStoreBrake

SpecCruise == InitCruise /\ [][NextCruise]_vars

\* ------------------------------------------------- PitchHoldController
\* What every statement of the loop body leaves alone.
PhGoes(from, to) ==
    /\ wpc["ph"] = from
    /\ wpc' = [wpc EXCEPT !["ph"] = to]
    /\ UNCHANGED << clockVars, current_step, thread_running, starts,
                    dataVars, busVars, monVars, histVars, snapVars,
                    writeHist, subVars, recVars, listVars, mutexVars,
                    scenarioVars, rowVars, shutdownVars, raceVars >>

\* if (state.pitch_control_enabled) updatePitchControl();
\* updatePitchControl: double current_pitch = state.pitch_angle.load();
PhRead ==
    /\ PhGoes("body", AfterCheck(pitch_control_enabled, "target"))
    /\ pitch_local' =
         IF pitch_control_enabled
         THEN [pitch_local EXCEPT !.current_pitch = pitch_angle]
         ELSE pitch_local
    /\ UNCHANGED << pid_kp, pid_ki, pid_kd, target_pitch_angle,
                    integral_error, previous_error, pitch_angle,
                    pitch_control_output, pitch_control_enabled, pid_pc,
                    pid_arg, rowVars, shutdownVars, raceVars >>

\* error = std::max(-M_PI, std::min(M_PI, error));
ClampError(e) == Max(-PI_MILLI, Min(PI_MILLI, e))

\* double target_pitch = target_pitch_angle.load();
\* calculatePIDOutput: error = target_pitch - current_pitch, limited to +-pi.
PhLoadTarget ==
    /\ PhGoes("target", "kp")
    /\ pitch_local' =
         [pitch_local EXCEPT
            !.error = ClampError(target_pitch_angle - pitch_local.current_pitch)]
    /\ UNCHANGED << pid_kp, pid_ki, pid_kd, target_pitch_angle,
                    integral_error, previous_error, pitch_angle,
                    pitch_control_output, pitch_control_enabled, pid_pc,
                    pid_arg, rowVars, shutdownVars, raceVars >>

\* double kp = pid_kp.load();  double proportional = kp * error;
PhLoadKp ==
    /\ PhGoes("kp", "ki")
    /\ pitch_local' =
         [pitch_local EXCEPT
            !.proportional = (pid_kp * pitch_local.error) \div 100]
    /\ UNCHANGED << pid_kp, pid_ki, pid_kd, target_pitch_angle,
                    integral_error, previous_error, pitch_angle,
                    pitch_control_output, pitch_control_enabled, pid_pc,
                    pid_arg, rowVars, shutdownVars, raceVars >>

\* double ki = pid_ki.load();
PhLoadKi ==
    /\ PhGoes("ki", "integral_load")
    /\ pitch_local' = [pitch_local EXCEPT !.ki = pid_ki]
    /\ UNCHANGED << pid_kp, pid_ki, pid_kd, target_pitch_angle,
                    integral_error, previous_error, pitch_angle,
                    pitch_control_output, pitch_control_enabled, pid_pc,
                    pid_arg, rowVars, shutdownVars, raceVars >>

\* integral = std::max(-INTEGRAL_LIMIT, std::min(INTEGRAL_LIMIT, integral));
ClampIntegralMutant(x) == x
ClampIntegral(x) == Max(-INTEGRAL_LIMIT, Min(INTEGRAL_LIMIT, x))

\* double integral = integral_error.load() + ki * error * 0.01;  limited.
PhLoadIntegral ==
    /\ PhGoes("integral_load", "integral_store")
    /\ pitch_local' =
         [pitch_local EXCEPT
            !.integral =
               ClampIntegral(integral_error
                             + (pitch_local.ki * pitch_local.error) \div 10000)]
    /\ UNCHANGED << pid_kp, pid_ki, pid_kd, target_pitch_angle,
                    integral_error, previous_error, pitch_angle,
                    pitch_control_output, pitch_control_enabled, pid_pc,
                    pid_arg, rowVars, shutdownVars, raceVars >>

\* integral_error.store(integral);
PhStoreIntegral ==
    /\ PhGoes("integral_store", "kd")
    /\ integral_error' = pitch_local.integral
    /\ UNCHANGED << pid_kp, pid_ki, pid_kd, target_pitch_angle,
                    previous_error, pitch_angle, pitch_control_output,
                    pitch_control_enabled, pitch_local, pid_pc, pid_arg,
                    rowVars, shutdownVars, raceVars >>

\* double kd = pid_kd.load();
PhLoadKd ==
    /\ PhGoes("kd", "prev_load")
    /\ pitch_local' = [pitch_local EXCEPT !.kd = pid_kd]
    /\ UNCHANGED << pid_kp, pid_ki, pid_kd, target_pitch_angle,
                    integral_error, previous_error, pitch_angle,
                    pitch_control_output, pitch_control_enabled, pid_pc,
                    pid_arg, rowVars, shutdownVars, raceVars >>

\* double derivative = kd * (error - previous_error.load()) / 0.01;
PhLoadPrevious ==
    /\ PhGoes("prev_load", "prev_store")
    /\ pitch_local' =
         [pitch_local EXCEPT
            !.derivative = pitch_local.kd * (pitch_local.error - previous_error)]
    /\ UNCHANGED << pid_kp, pid_ki, pid_kd, target_pitch_angle,
                    integral_error, previous_error, pitch_angle,
                    pitch_control_output, pitch_control_enabled, pid_pc,
                    pid_arg, rowVars, shutdownVars, raceVars >>

\* previous_error.store(error);
PhStorePrevious ==
    /\ PhGoes("prev_store", "apply")
    /\ previous_error' = pitch_local.error
    /\ UNCHANGED << pid_kp, pid_ki, pid_kd, target_pitch_angle,
                    integral_error, pitch_angle, pitch_control_output,
                    pitch_control_enabled, pitch_local, pid_pc, pid_arg,
                    rowVars, shutdownVars, raceVars >>

\* output = std::max(MIN_CONTROL_OUTPUT, std::min(MAX_CONTROL_OUTPUT, output));
ClampOutput(x) == Max(-MAX_CONTROL_OUTPUT, Min(MAX_CONTROL_OUTPUT, x))

\* double output = proportional + integral + derivative, limited;
\* applyPitchControl: state.pitch_control_output.store(control_output);
PhApply ==
    /\ PhGoes("apply", "notify")
    /\ pitch_control_output' =
         ClampOutput(pitch_local.proportional + pitch_local.integral
                     + pitch_local.derivative)
    /\ UNCHANGED << pid_kp, pid_ki, pid_kd, target_pitch_angle,
                    integral_error, previous_error, pitch_angle,
                    pitch_control_enabled, pitch_local, pid_pc, pid_arg,
                    rowVars, shutdownVars, raceVars >>

\* What a call made on the controller from another thread leaves alone.
PitchCall ==
    /\ TRUE
    /\ UNCHANGED << clockVars, workerVars, dataVars, busVars, monVars,
                    histVars, snapVars, writeHist, subVars, recVars,
                    listVars, mutexVars, scenarioVars, rowVars,
                    shutdownVars, raceVars >>

\* resetIntegral: integral_error.store(0.0);
ResetIntegral ==
    /\ PitchCall
    /\ integral_error # 0
    /\ integral_error' = 0
    /\ UNCHANGED << pid_kp, pid_ki, pid_kd, target_pitch_angle,
                    previous_error, pitch_angle, pitch_control_output,
                    pitch_control_enabled, pitch_local, pid_pc, pid_arg,
                    rowVars, shutdownVars, raceVars >>

\* setTargetPitch: target_pitch_angle.store(target_pitch);
SetTargetPitch(t) ==
    /\ PitchCall
    /\ target_pitch_angle # t
    /\ target_pitch_angle' = t
    /\ UNCHANGED << pid_kp, pid_ki, pid_kd, integral_error, previous_error,
                    pitch_angle, pitch_control_output, pitch_control_enabled,
                    pitch_local, pid_pc, pid_arg, rowVars, shutdownVars,
                    raceVars >>

\* setPIDParameters(kp, ki, kd): pid_kp.store(kp);
SetPidKp(g) ==
    /\ PitchCall
    /\ pid_pc = "idle"
    /\ pid_arg' = g
    /\ pid_kp' = g.kp
    /\ pid_pc' = "ki"
    /\ UNCHANGED << pid_ki, pid_kd, target_pitch_angle, integral_error,
                    previous_error, pitch_angle, pitch_control_output,
                    pitch_control_enabled, pitch_local, rowVars,
                    shutdownVars, raceVars >>

\* pid_ki.store(ki);
SetPidKi ==
    /\ PitchCall
    /\ pid_pc = "ki"
    /\ pid_ki' = pid_arg.ki
    /\ pid_pc' = "kd"
    /\ UNCHANGED << pid_kp, pid_kd, target_pitch_angle, integral_error,
                    previous_error, pitch_angle, pitch_control_output,
                    pitch_control_enabled, pitch_local, pid_arg, rowVars,
                    shutdownVars, raceVars >>

\* pid_kd.store(kd);
SetPidKd ==
    /\ PitchCall
    /\ pid_pc = "kd"
    /\ pid_kd' = pid_arg.kd
    /\ pid_pc' = "idle"
    /\ UNCHANGED << pid_kp, pid_ki, target_pitch_angle, integral_error,
                    previous_error, pitch_angle, pitch_control_output,
                    pitch_control_enabled, pitch_local, pid_arg, rowVars,
                    shutdownVars, raceVars >>

\* The pitch-hold controller alone on the clock, pitch control enabled; the
\* gains are the defaults or large ones of either sign, the targets lie
\* beyond +-pi.
LargeGains == [kp |-> -100000, ki |-> 500000, kd |-> 100000]
PitchGains == {DefaultGains, LargeGains}
PitchTargets == {-4000, 4000}

InitPitch == InitState(0, 0, 0, {"ph"}, TRUE)

NextPitch ==
    \/ ClockTicks
    \/ ClockSpuriousWake
    \/ WorkerCycle("ph")
    \/ WorkerSpuriousWake("ph")
    \/ PhRead
    \/ PhLoadTarget
    \/ PhLoadKp
    \/ PhLoadKi
    \/ PhLoadIntegral
    \/ PhStoreIntegral
    \/ PhLoadKd
    \/ PhLoadPrevious
    \/ PhStorePrevious
    \/ PhApply
    \/ ResetIntegral
    \/ \E t \in PitchTargets : SetTargetPitch(t)
    \/ \E g \in PitchGains : SetPidKp(g)
    \/ SetPidKi
    \/ SetPidKd

SpecPitch == InitPitch /\ [][NextPitch]_vars

\* ------------------------------------------------- a fixed set of workers
\* The state manager, the throttle-increase controller and the brake
\* controller registered before SimulationClock::start(); nobody stops a
\* thread or the clock, so no worker unregisters.
SteadyWorkers == {"sm", "ti", "br"}

InitSteady == InitState(0, 0, 0, SteadyWorkers, TRUE)

NextSteady ==
    \/ ClockTicks
    \/ ClockSpuriousWake
    \/ \E w \in SteadyWorkers : WorkerCycle(w)
    \/ \E w \in SteadyWorkers : WorkerSpuriousWake(w)
    \/ SmDrain
    \/ TiRead
    \/ TiPush
    \/ BrRead
    \/ BrStore

SpecSteady == InitSteady /\ [][NextSteady]_vars

\* ------------------------------------------ ControllerManagerThread::run
\* event_cv.wait(lock, [this] { return !event_queue.empty() || !running; });
\* if (!running) break;   Nothing calls addEvent, so event_queue is empty.
MgrCheck ==
    /\ mgr_pc = "check"
    /\ mgr_pc' = IF mgr_running THEN "towait" ELSE "off"
    /\ UNCHANGED << clockVars, workerVars, dataVars, busVars, monVars,
                    histVars, snapVars, writeHist, subVars, recVars,
                    listVars, mutexVars, scenarioVars, pitchVars, rowVars,
                    main_pc, ctl_pc, ctl_running, ctl_paused, mgr_running,
                    raceVars >>

\* event_cv.wait: release event_mutex and block.
MgrWait ==
    /\ mgr_pc = "towait"
    /\ mgr_pc' = "waiting"
    /\ UNCHANGED << clockVars, workerVars, dataVars, busVars, monVars,
                    histVars, snapVars, writeHist, subVars, recVars,
                    listVars, mutexVars, scenarioVars, pitchVars, rowVars,
                    main_pc, ctl_pc, ctl_running, ctl_paused, mgr_running,
                    raceVars >>

\* A spurious wake-up of the manager thread.
MgrSpuriousWake ==
    /\ mgr_pc = "waiting"
    /\ mgr_pc' = "check"
    /\ UNCHANGED << clockVars, workerVars, dataVars, busVars, monVars,
                    histVars, snapVars, writeHist, subVars, recVars,
                    listVars, mutexVars, scenarioVars, pitchVars, rowVars,
                    main_pc, ctl_pc, ctl_running, ctl_paused, mgr_running,
                    raceVars >>

\* ------------------------------------------ SimulationControlThread::run
\* The space key goes down: when not paused, paused.store(true);
\* state.simulation_running.store(false); then clock.pause(); when paused,
\* paused.store(false); state.simulation_running.store(true); then
\* clock.resume().
CtlKeySpace ==
    /\ ctl_pc = "poll"
    /\ ctl_running
    /\ ctl_paused' = ~ctl_paused
    /\ simulation_running' = ctl_paused
    /\ ctl_pc' = IF ctl_paused THEN "resume_clock" ELSE "pause_clock"
    /\ fell' = Fallen(ctl_paused, simulation_time, position, velocity)
    /\ UNCHANGED << clockVars, workerVars, motionVars,
                    throttle_control_enabled, brake_control_enabled,
                    cruise_control_enabled, flight_mode, control_auth,
                    localVars, busVars, monVars, clockHist, init_throttle,
                    exec_count, reEvaluated, alone, mode_done, snapVars,
                    writeHist, subVars, recVars, listVars, mutexVars,
                    scenarioVars, pitchVars, rowVars, main_pc, ctl_running,
                    mgr_running, mgr_pc, raceVars >>

\* SimulationClock::getInstance().pause(): paused = true;
CtlPauseClock ==
    /\ ctl_pc = "pause_clock"
    /\ paused' = TRUE
    /\ ctl_pc' = "poll"
    /\ UNCHANGED << running, time_steps, current_time, registered_threads,
                    completed_threads, mtx, clk_pc, stop_pc, workerVars,
                    dataVars, clockHist, eventVars,
                    snapVars, writeHist, subVars, recVars, listVars,
                    mutexVars, scenarioVars, pitchVars, rowVars, main_pc,
                    ctl_running, ctl_paused, mgr_running, mgr_pc, raceVars >>

\* SimulationClock::getInstance().resume(): paused = false;
CtlResumeClock ==
    /\ ctl_pc = "resume_clock"
    /\ paused' = FALSE
    /\ ctl_pc' = "poll"
    /\ UNCHANGED << running, time_steps, current_time, registered_threads,
                    completed_threads, mtx, clk_pc, stop_pc, workerVars,
                    dataVars, clockHist, eventVars,
                    snapVars, writeHist, subVars, recVars, listVars,
                    mutexVars, scenarioVars, pitchVars, rowVars, main_pc,
                    ctl_running, ctl_paused, mgr_running, mgr_pc, raceVars >>

\* if (state.position.load() > 1500.0 || state.simulation_time.load() > 180.0)
LimitExceeded ==
    position > POSITION_LIMIT \/ simulation_time > TIME_LIMIT

\* The ESC key goes down, or the position or time limit is exceeded:
\* state.simulation_running.store(false); then clock.stop(); break;
CtlTerminate ==
    /\ ctl_pc = "poll"
    /\ ctl_running
    /\ \E esc_pressed \in BOOLEAN : esc_pressed \/ LimitExceeded
    /\ simulation_running' = FALSE
    /\ ctl_pc' = "stop_flag"
    /\ fell' = Fallen(FALSE, simulation_time, position, velocity)
    /\ UNCHANGED << clockVars, workerVars, motionVars,
                    throttle_control_enabled, brake_control_enabled,
                    cruise_control_enabled, flight_mode, control_auth,
                    localVars, busVars, monVars, clockHist, init_throttle,
                    exec_count, reEvaluated, alone, mode_done, snapVars,
                    writeHist, subVars, recVars, listVars, mutexVars,
                    scenarioVars, pitchVars, rowVars, main_pc, ctl_running,
                    ctl_paused, mgr_running, mgr_pc, raceVars >>

\* clock.stop(): running = false;
CtlStopFlag ==
    /\ ctl_pc = "stop_flag"
    /\ running' = FALSE
    /\ ctl_pc' = "stop_notify"
    /\ UNCHANGED << paused, time_steps, current_time, registered_threads,
                    completed_threads, mtx, clk_pc, stop_pc, workerVars,
                    dataVars, busVars, monVars, histVars, snapVars,
                    writeHist, subVars, recVars, listVars, mutexVars,
                    scenarioVars, pitchVars, rowVars, main_pc, ctl_running,
                    ctl_paused, mgr_running, mgr_pc, raceVars >>

\* clock.stop(): cv_step_start.notify_all(); cv_step_end.notify_all();
\* break; the thread ends.
CtlStopNotify ==
    /\ ctl_pc = "stop_notify"
    /\ wpc' = WakeStartWorkers(wpc)
    /\ clk_pc' = WakeEndClock(WakeStartClock(clk_pc))
    /\ ctl_pc' = "off"
    /\ UNCHANGED << running, paused, time_steps, current_time,
                    registered_threads, completed_threads, mtx, stop_pc,
                    current_step, thread_running, starts, dataVars, busVars,
                    monVars, histVars, snapVars, writeHist, subVars,
                    recVars, listVars, mutexVars, scenarioVars, pitchVars,
                    rowVars, main_pc, ctl_running, ctl_paused, mgr_running,
                    mgr_pc, raceVars >>

\* while (running): stop() has cleared the flag; the thread ends.
CtlExit ==
    /\ ctl_pc = "poll"
    /\ ~ctl_running
    /\ ctl_pc' = "off"
    /\ UNCHANGED << clockVars, workerVars, dataVars, busVars, monVars,
                    histVars, snapVars, writeHist, subVars, recVars,
                    listVars, mutexVars, scenarioVars, pitchVars, rowVars,
                    main_pc, ctl_running, ctl_paused, mgr_running, mgr_pc,
                    raceVars >>

\* ------------------------------------------------ main of the Taxi scenario
\* A step of main that only moves main on.
MainGoes(from, to) ==
    /\ main_pc = from
    /\ main_pc' = to
    /\ UNCHANGED << clockVars, wpc, current_step, starts, dataVars, busVars,
                    monVars, histVars, snapVars, writeHist, subVars,
                    recVars, listVars, mutexVars, scenarioVars, pitchVars,
                    rowVars, ctl_pc, ctl_paused, mgr_pc, raceVars >>

\* while (state.simulation_running.load()) sleep_for(100ms);
MainPoll ==
    /\ ~simulation_running
    /\ MainGoes("wait", "stop_recorder")
    /\ UNCHANGED << thread_running, ctl_running, mgr_running, raceVars >>

\* stop() of a thread object: if (running) { running = false; join }.
MainStops(w, from, to) ==
    /\ MainGoes(from, to)
    /\ thread_running' = [thread_running EXCEPT ![w] = FALSE]
    /\ UNCHANGED << ctl_running, mgr_running, raceVars >>

\* thread.join() returns when the thread has ended.
MainJoins(w, from, to) ==
    /\ JoinReturns(w)
    /\ MainGoes(from, to)
    /\ UNCHANGED << thread_running, ctl_running, mgr_running, raceVars >>

\* stop_data_recorder: data_recorder_thread.stop(); (join() then finds
\* the thread already joined)
MainStopRecorder == MainStops("rec", "stop_recorder", "join_recorder")
MainJoinRecorder == MainJoins("rec", "join_recorder", "join_dynamics")

\* stop_dynamics: dynamics_thread.join();
MainJoinDynamics == MainJoins("dyn", "join_dynamics", "stop_manager")

\* stop_controller_manager: running = false; controller->stop() of every
\* controller (running = false, join);
MainStopManager ==
    /\ MainGoes("stop_manager", "join_controllers")
    /\ mgr_running' = FALSE
    /\ thread_running' = [w \in Workers |->
                            thread_running[w] /\ w \notin Controllers]
    /\ ctl_running' = ctl_running

MainJoinControllers ==
    /\ \A w \in Controllers : JoinReturns(w)
    /\ MainGoes("join_controllers", "notify_manager")
    /\ UNCHANGED << thread_running, ctl_running, mgr_running, raceVars >>

\* event_cv.notify_all();
MainNotifyManager ==
    /\ main_pc = "notify_manager"
    /\ main_pc' = "join_manager"
    /\ mgr_pc' = IF mgr_pc = "waiting" THEN "check" ELSE mgr_pc
    /\ UNCHANGED << clockVars, workerVars, dataVars, busVars, monVars,
                    histVars, snapVars, writeHist, subVars, recVars,
                    listVars, mutexVars, scenarioVars, pitchVars, rowVars,
                    ctl_pc, ctl_running, ctl_paused, mgr_running, raceVars >>

\* manager_thread.join();
MainJoinManager ==
    /\ mgr_pc = "off"
    /\ MainGoes("join_manager", "stop_monitor")
    /\ UNCHANGED << thread_running, ctl_running, mgr_running, raceVars >>

\* stop_event_monitor: event_monitor_thread.stop();
MainStopMonitor == MainStops("mon", "stop_monitor", "join_monitor")
MainJoinMonitor == MainJoins("mon", "join_monitor", "stop_state_manager")

\* stop_state_manager: state_manager.stop();
MainStopStateManager ==
    MainStops("sm", "stop_state_manager", "join_state_manager")
MainJoinStateManager == MainJoins("sm", "join_state_manager", "stop_clock")

\* stop_clock: SimulationClock::getInstance().stop(): running = false;
MainStopClockFlag ==
    /\ main_pc = "stop_clock"
    /\ main_pc' = "notify_clock"
    /\ running' = FALSE
    /\ UNCHANGED << paused, time_steps, current_time, registered_threads,
                    completed_threads, mtx, clk_pc, stop_pc, workerVars,
                    dataVars, busVars, monVars, histVars, snapVars,
                    writeHist, subVars, recVars, listVars, mutexVars,
                    scenarioVars, pitchVars, rowVars, ctl_pc, ctl_running,
                    ctl_paused, mgr_running, mgr_pc, raceVars >>

\* cv_step_start.notify_all(); cv_step_end.notify_all();
MainStopClockNotify ==
    /\ main_pc = "notify_clock"
    /\ main_pc' = "join_clock"
    /\ wpc' = WakeStartWorkers(wpc)
    /\ clk_pc' = WakeEndClock(WakeStartClock(clk_pc))
    /\ UNCHANGED << running, paused, time_steps, current_time,
                    registered_threads, completed_threads, mtx, stop_pc,
                    current_step, thread_running, starts, dataVars, busVars,
                    monVars, histVars, snapVars, writeHist, subVars,
                    recVars, listVars, mutexVars, scenarioVars, pitchVars,
                    rowVars, ctl_pc, ctl_running, ctl_paused, mgr_running,
                    mgr_pc, raceVars >>

\* clock_thread.join();
MainJoinClock ==
    /\ clk_pc = "done"
    /\ MainGoes("join_clock", "stop_control")
    /\ UNCHANGED << thread_running, ctl_running, mgr_running, raceVars >>

\* stop_simulation_control: simulation_control_thread.stop();
MainStopControl ==
    /\ MainGoes("stop_control", "join_control")
    /\ ctl_running' = FALSE
    /\ UNCHANGED << thread_running, mgr_running, raceVars >>

\* control_thread.join(); return 0;
MainJoinControl ==
    /\ ctl_pc = "off"
    /\ MainGoes("join_control", "done")
    /\ UNCHANGED << thread_running, ctl_running, mgr_running, raceVars >>

\* main from the end of its polling loop to its return.
MainStep ==
    \/ MainPoll
    \/ MainStopRecorder
    \/ MainJoinRecorder
    \/ MainJoinDynamics
    \/ MainStopManager
    \/ MainJoinControllers
    \/ MainNotifyManager
    \/ MainJoinManager
    \/ MainStopMonitor
    \/ MainJoinMonitor
    \/ MainStopStateManager
    \/ MainJoinStateManager
    \/ MainStopClockFlag
    \/ MainStopClockNotify
    \/ MainJoinClock
    \/ MainStopControl
    \/ MainJoinControl

\* The control thread in the middle of a key's handling, or leaving.
CtlContinues ==
    \/ CtlPauseClock
    \/ CtlResumeClock
    \/ CtlStopFlag
    \/ CtlStopNotify
    \/ CtlExit

\* The dynamics thread and the data recorder, the first two threads main
\* joins, registered on the clock, with the controller manager's thread and
\* the control thread.  To keep the state space small the state manager and
\* the event monitor are not started here (their stop() then finds nothing
\* to join), and no controller is running.
ShutdownWorkers == {"dyn", "rec"}

InitShutdown == InitState(0, 0, 0, ShutdownWorkers, FALSE)

DynamicsRuns ==
    WorkerCycle("dyn") \/ WorkerUnregister("dyn") \/ DynForce \/ DynIntegrate
RecorderRuns == WorkerCycle("rec") \/ WorkerUnregister("rec") \/ RecBody
ManagerRuns == MgrCheck \/ MgrWait

NextShutdown ==
    \/ ClockTicks
    \/ ClockPaused
    \/ DynamicsRuns
    \/ RecorderRuns
    \/ ManagerRuns
    \/ CtlKeySpace
    \/ CtlTerminate
    \/ CtlContinues
    \/ MainStep

\* Every thread that can take a step is scheduled; the keys are pressed or
\* not.
FairShutdown ==
    /\ WF_vars(ClockTicks \/ ClockPaused)
    /\ WF_vars(DynamicsRuns)
    /\ WF_vars(RecorderRuns)
    /\ WF_vars(ManagerRuns)
    /\ WF_vars(CtlContinues)
    /\ WF_vars(MainStep)

SpecShutdown == InitShutdown /\ [][NextShutdown]_vars /\ FairShutdown

\* ------------------------------- start() of a controller, statement by statement
\* What a statement of startController / start() run by bus worker b leaves
\* alone.
StartGoes(b, from, to) ==
    /\ ~aborted
    /\ start_pc[b] = from
    /\ start_pc' = [start_pc EXCEPT ![b] = to]
    /\ UNCHANGED << clockVars, wpc, current_step, dataVars, busVars, monVars,
                    histVars, snapVars, writeHist, subVars, recVars,
                    listVars, mutexVars, scenarioVars, pitchVars, rowVars,
                    shutdownVars, extra_registered >>

\* A callback's START_<controller> action on bus worker b:
\* startController(name): without the authority the call returns.
StartCall(b, w) ==
    /\ bus_pc[b] = "wait"
    /\ start_calls[b] < MaxStarts
    /\ StartGoes(b, "idle", IF AuthorityPermits(w) THEN "check" ELSE "idle")
    /\ start_calls' = [start_calls EXCEPT ![b] = @ + 1]
    /\ start_arg' = [start_arg EXCEPT ![b] = IF AuthorityPermits(w)
                                              THEN w ELSE "none"]
    /\ UNCHANGED << thread_running, starts, joinable, aborted >>

\* start(): if (!running)
StartCheck(b) ==
    /\ StartGoes(b, "check",
                 IF thread_running[start_arg[b]] THEN "idle" ELSE "set")
    /\ start_arg' = [start_arg EXCEPT ![b] = IF thread_running[start_arg[b]]
                                              THEN "none" ELSE @]
    /\ UNCHANGED << thread_running, starts, start_calls, joinable, aborted >>

\* running = true;
StartSet(b) ==
    /\ StartGoes(b, "set", "spawn")
    /\ thread_running' = [thread_running EXCEPT ![start_arg[b]] = TRUE]
    /\ UNCHANGED << starts, start_arg, start_calls, joinable, aborted >>

\* std::thread(&Controller::run, this): the new thread exists from here on.
\* The first thread of a controller is the worker of the model; a further
\* one is counted and may call registerThread().
StartSpawn(b) ==
    /\ ~aborted
    /\ start_pc[b] = "spawn"
    /\ start_pc' = [start_pc EXCEPT ![b] = "assign"]
    /\ starts' = [starts EXCEPT ![start_arg[b]] = @ + 1]
    /\ wpc' = [wpc EXCEPT ![start_arg[b]] = IF @ = "off" THEN "reg" ELSE @]
    /\ UNCHANGED << clockVars, current_step, thread_running, dataVars,
                    busVars, monVars, histVars, snapVars, writeHist,
                    subVars, recVars, listVars, mutexVars, scenarioVars,
                    pitchVars, rowVars, shutdownVars, start_arg,
                    start_calls, joinable, extra_registered, aborted >>

\* controller_thread = <the new thread>: move assignment to a std::thread
\* that is joinable calls std::terminate.  Two unsynchronised assignments
\* at once are a data race: either of the outcomes.
StartAssign(b) ==
    /\ StartGoes(b, "assign", "idle")
    /\ LET w == start_arg[b]
           racing == \E c \in BusWorkers \ {b} :
                        start_pc[c] = "assign" /\ start_arg[c] = w
       IN
       /\ \E terminate \in BOOLEAN :
            /\ joinable[w] /\ ~racing => terminate
            /\ ~joinable[w] /\ ~racing => ~terminate
            /\ aborted' = terminate
       /\ joinable' = [joinable EXCEPT ![w] = TRUE]
    /\ start_arg' = [start_arg EXCEPT ![b] = "none"]
    /\ UNCHANGED << thread_running, starts, start_calls >>

\* run() of a further thread of the controller: clock.registerThread();
ExtraThreadRegister(w) ==
    /\ ~aborted
    /\ extra_registered[w] < starts[w] - 1
    /\ extra_registered' = [extra_registered EXCEPT ![w] = @ + 1]
    /\ registered_threads' = registered_threads + 1
    /\ UNCHANGED << running, paused, time_steps, current_time,
                    completed_threads, mtx, clk_pc, stop_pc, workerVars,
                    dataVars, busVars, monVars, histVars, snapVars,
                    writeHist, subVars, recVars, listVars, mutexVars,
                    scenarioVars, pitchVars, rowVars, shutdownVars,
                    start_pc, start_arg, start_calls, joinable, aborted >>

\* START_BRAKE is an action of two events of the abort-takeoff scenario
\* (ABORT_TAKEOFF and START_BRAKE), whose callbacks run on different bus
\* workers.  The flight mode is switched to AUTO by an earlier event; the
\* state manager keeps the clock running; nothing stops a controller.  Once
\* std::terminate has been called no start() goes on (the threads already
\* on the clock are left to the model's tick bound).
StartCallers == {1, 2}

InitStartRace == InitState(0, 0, 0, {"sm"}, TRUE)

NextStartRace ==
    \/ \E b \in BusWorkers : ModeActionInTurn(b, "AUTO")
    \/ \E b \in BusWorkers : SetFlightModeStore(b)
    \/ \E b \in StartCallers : StartCall(b, "br")
    \/ \E b \in StartCallers : StartCheck(b)
    \/ \E b \in StartCallers : StartSet(b)
    \/ \E b \in StartCallers : StartSpawn(b)
    \/ \E b \in StartCallers : StartAssign(b)
    \/ ExtraThreadRegister("br")
    \/ ClockTicks
    \/ WorkerRegister("br")
    \/ \E w \in {"sm", "br"} : WorkerCycle(w)
    \/ SmDrain
    \/ BrRead
    \/ BrStore

SpecStartRace == InitStartRace /\ [][NextStartRace]_vars

\* -------------------------------------------- the recorder started last
\* main starts the clock, then the other threads, and the data recorder
\* last: start_clock(); ... start_dynamics(); start_data_recorder();
\* The dynamics thread is on the clock from the beginning; the recorder's
\* start(), registerThread() and initial row come at any later moment.
InitLate == InitState(0, 0, 0, {"dyn"}, FALSE)

NextLate ==
    \/ ClockTicks
    \/ WorkerCycle("dyn")
    \/ DynForce
    \/ DynIntegrate
    \/ WorkerStart("rec")
    \/ WorkerRegister("rec")
    \/ RecInitialRow
    \/ WorkerCycle("rec")
    \/ RecBody

SpecLate == InitLate /\ [][NextLate]_vars

\* ------------------------------------ both throttle controllers running
\* After START_THROTTLE_INCREASE and, later, the START_BRAKE event's action
\* START_THROTTLE_DECREASE: both throttle controllers are on the clock with
\* the state manager, throttle_control_enabled is set (the one flag both
\* read), and the throttle stands above zero and below its maximum.  (The
\* brake controller writes brake only and is left out.)
InitBoth == InitState(5, 0, 0, {"sm", "ti", "td"}, TRUE)

NextBoth ==
    \/ ClockTicks
    \/ \E w \in {"sm", "ti", "td"} : WorkerCycle(w)
    \/ SmDrain
    \/ TiRead
    \/ TiPush
    \/ TdRead
    \/ TdPush

SpecBoth == InitBoth /\ [][NextBoth]_vars

\* ------------------------------------------------------------------ claims
\* C1 (barrier): the clock publishes tick N+1 only when every worker that is
\* registered has called notifyStepCompleted for tick N.
BarrierHolds ==
    [][(time_steps' = time_steps + 1 /\ time_steps >= 1)
         => \A w \in Workers : IsRegistered(w) => lastDone[w] = time_steps]_vars

\* C2: with no worker having completed a step, the clock publishes tick 1
\* and no further tick.
NoTickBeforeFirstCompletion ==
    ~anyCompleted => time_steps <= 1

\* C3 (determinism): the motion state every tick leaves behind is the same in
\* every interleaving: that of the run in which, in each tick, the
\* integrator runs on the state of the previous tick and the state manager
\* then applies its messages.
Deterministic ==
    committed.state = RefState(init_throttle, committed.tick)

\* C4: no message pushed during a tick is still in the state-update queue in
\* a later tick, the state manager being registered from the first tick on.
QueueDrainedEachTick ==
    \A i \in DOMAIN queue : queue[i].tick = time_steps

\* A thread blocked in a wait of the clock, or about to block in it.
SomeThreadBlocked ==
    \/ clk_pc \in {"barrier_towait", "barrier_waiting", "pause_towait",
                   "pause_waiting"}
    \/ \E w \in Workers : wpc[w] \in {"towait", "waiting"}

\* C5: once stop() has returned with the clock stopped, every thread blocked
\* in waitForNextStep and the clock thread are eventually released.
StopReleasesWaiters ==
    (stopReturned /\ ~running) ~> ~SomeThreadBlocked

\* C6: a worker that wakes from waitForNextStep because the clock has
\* stopped runs no step body (no store, no push).
NoBodyAfterStopWake ==
    \A w \in Workers : ~bodyAfterStop[w]

\* C7: while the clock is paused by a pause() called during a tick, no
\* further tick is published: time_steps and current_time stay unchanged.
PauseHoldsTick ==
    [][(paused /\ pausedInTick /\ paused')
         => (time_steps' = time_steps /\ current_time' = current_time)]_vars

\* C8: after pause() and resume(), with the clock running, the next tick is
\* eventually published.
ResumeAdvances ==
    \A n \in 1..(MaxStep - 1) :
        (resumed /\ ~paused /\ running /\ time_steps = n)
            ~> (time_steps > n \/ paused \/ ~running)

\* C9: the controller manager executes the action list of every event at
\* most once, whatever number of publishes and bus workers.
ActionsAtMostOnce ==
    \A e \in Events : exec_count[e] <= 1

\* C10: the event monitor publishes every event name at most once.
MonitorPublishesOnce ==
    \A e \in Events : total_events[e] <= 1

\* C10 witness: an event published once whose condition fell after the latch
\* was set and held again when the monitor evaluated it.
MonitorSkipsRetrigger ==
    \E e \in Events : e \in reEvaluated /\ total_events[e] = 1


SetFlightModeResult ==
    [][\A b \in BusWorkers :
         (bus_pc[b] = "auto_brake" /\ bus_pc'[b] = "wait" /\ alone[b])
         => /\ flight_mode' = call_mode[b]
            /\ call_mode[b] = "AUTO" =>
                 control_auth' = [pilot_throttle |-> FALSE, pilot_brake |-> FALSE,
                                  auto_throttle |-> TRUE, auto_brake |-> TRUE]
            /\ call_mode[b] = "MANUAL" =>
                 control_auth' = [pilot_throttle |-> TRUE, pilot_brake |-> TRUE,
                                  auto_throttle |-> FALSE, auto_brake |-> FALSE]
            /\ call_mode[b] = "SEMI_AUTO" =>
                 control_auth' = [pilot_throttle |-> TRUE, pilot_brake |-> TRUE,
                                  auto_throttle |-> TRUE, auto_brake |-> TRUE]]_vars

\* Two calls were made one after the other, the second has returned and
\* left SemiAuto with all four bits set.
SemiAutoSetAlone ==
    /\ mode_done.calls = 2
    /\ mode_done.alone
    /\ \A b \in BusWorkers : bus_pc[b] = "wait"
    /\ flight_mode = "SEMI_AUTO"
    /\ control_auth = [pilot_throttle |-> TRUE, pilot_brake |-> TRUE,
                       auto_throttle |-> TRUE, auto_brake |-> TRUE]

\* C13 (setFlightMode is atomic): the flight mode and the four authority bits
\* change as one group; in particular, once every call of setFlightMode has
\* returned, the four bits are exactly those of the stored flight_mode.
ModeGroupAtomic ==
    (\A b \in BusWorkers : bus_pc[b] \notin ModeSteps)
        => control_auth = AuthorityOf(flight_mode)

\* C14 (control ranges): throttle and brake stay within [0, 1], in the state
\* every committed tick leaves and in every state between, whichever
\* controllers run and however their queue writes and direct stores
\* interleave.
ControlsInRange ==
    /\ throttle \in 0..MAX_THROTTLE
    /\ brake \in 0..MAX_BRAKE
    /\ committed.state.throttle \in 0..MAX_THROTTLE
    /\ committed.state.brake \in 0..MAX_BRAKE

\* The throttle-decrease controller ran from throttle 0.001 (and neither the
\* increase nor the cruise controller ran): a tick was committed with the
\* throttle clamped to 0.
ThrottleClampedAtZero ==
    /\ init_throttle = 1
    /\ IsRegistered("td") /\ IsRegistered("br")
    /\ committed.tick >= 1
    /\ committed.state.throttle = 0

\* C15 (velocity clamp): the velocity in the shared state after every
\* committed tick is >= 0 when the run starts from a velocity >= 0: a step
\* that would take the velocity to or below 0 leaves 0.
VelocityNonNegative == committed.state.velocity >= 0

\* C16 (state_version): state_version is the number of updateState calls
\* that have incremented it -- those returned plus those between their
\* increment and their return -- in every interleaving of committers,
\* readers and writers of the atomics; every step leaves it alone or is the
\* increment by one of a committer, so it never decreases.
VersionCountsCommits ==
    /\ [](state_version = update_calls.returned
            + Cardinality({u \in Updaters : snap_pc[u] = "unlock"}))
    /\ [][\/ state_version' = state_version
          \/ /\ state_version' = state_version + 1
             /\ \E u \in Updaters : /\ snap_pc[u] = "bump"
                                    /\ snap_pc'[u] = "unlock"]_vars

\* Two updateState calls and a getState call have returned and the version
\* is 2.
TwoCommitsVersionTwo ==
    /\ update_calls.returned = 2
    /\ state_version = 2
    /\ snap_pc["g1"] = "returned"

\* C17 (coherent snapshot): the StateSnapshot a getState call returns is a
\* state the motion atomics were in at some instant of the call, never a
\* mix of values from before and after a concurrent writer's stores.
SnapshotCoherent ==
    \A g \in Getters : snap_pc[g] = "returned" => snap_local[g] \in seen

\* C18 (commit then snapshot): a getState call made after updateState(s)
\* returned, with no store to the atomics since, returns exactly the
\* values s.
SnapshotReturnsCommit ==
    \A g \in Getters :
        (snap_pc[g] = "unlock" /\ unwritten) => snap_local[g] = last_commit

\* C19 (bus overflow): the bus queue never holds more than MAX_QUEUE_SIZE
\* items; a publish that finds it at capacity leaves the queue, the workers
\* and the callbacks' counters as they are and adds exactly one to that
\* event's dropped_events; and for every event the publishes counted by
\* total_events, less the dropped ones, are exactly the items queued, held
\* by a worker or processed by its callback, so no callback runs for a
\* dropped item.
OverflowDropsNewest ==
    /\ [](Len(event_queue) <= MAX_QUEUE_SIZE)
    /\ [](\A e \in Events :
            total_events[e] - dropped_events[e]
              = Count(event_queue, e)
                + Cardinality({b \in BusWorkers : bus_item[b] = e})
                + processed_events[e])
    /\ [][\A e \in Events :
            (total_events'[e] # total_events[e]
               /\ Len(event_queue) >= MAX_QUEUE_SIZE)
            => /\ event_queue' = event_queue
               /\ dropped_events' = [dropped_events EXCEPT ![e] = @ + 1]
               /\ total_events' = [total_events EXCEPT ![e] = @ + 1]
               /\ UNCHANGED << bus_pc, bus_item, processed_events,
                               triggered_events, exec_count >>]_vars

\* A publish found the queue full and was dropped, the queue is full again
\* and a callback has processed an item.
DroppedAtCapacity ==
    /\ dropped_events["FINAL_STOP"] = 1
    /\ Len(event_queue) = MAX_QUEUE_SIZE
    /\ processed_events["START_BRAKE"] >= 1

SimulationTimeIsStepTime ==
    wpc["dyn"] = "notify" => simulation_time = current_step["dyn"]

\* C22 (recorder monotonicity): the times of the rows written to the data
\* file are strictly increasing, whatever the sequence of recordData calls
\* and however concurrent calls interleave.
RowTimesIncrease ==
    \A i, j \in 1..Len(rows) : i < j => rows[i] < rows[j]

\* C23 (event order): in a run of the Taxi scenario from its initial state
\* FINAL_STOP is not published before START_BRAKE, nor START_BRAKE before
\* START_THROTTLE.
EventsFireInOrder ==
    /\ total_events["FINAL_STOP"] > 0 => total_events["START_BRAKE"] > 0
    /\ total_events["START_BRAKE"] > 0 => total_events["START_THROTTLE"] > 0

\* C24 (throttle ramp): in the Taxi scenario, once the action list of
\* START_THROTTLE has been executed the throttle-increase worker is running
\* (and so ramps the throttle from tick to tick).
ThrottleIncRunsAfterStartThrottle ==
    exec_count["START_THROTTLE"] > 0 => thread_running["ti"]

\* C25 (abort list): once the ABORT_TAKEOFF action list, executed in Auto mode
\* with the throttle-increase controller running, has finished, the
\* throttle-increase worker has stopped and unregistered, the
\* throttle-decrease and brake workers are running, and
\* throttle_control_enabled and brake_control_enabled are both true.
AbortListEffect ==
    (act_calls = 2 /\ act_pc = "idle") =>
        /\ ~thread_running["ti"]
        /\ wpc["ti"] = "off"
        /\ thread_running["td"] /\ wpc["td"] # "off"
        /\ thread_running["br"] /\ wpc["br"] # "off"
        /\ throttle_control_enabled
        /\ brake_control_enabled

\* The list has finished while the throttle-increase worker was registered
\* when it began, and the two new workers have registered.
AbortListFinished ==
    /\ act_calls = 2
    /\ act_pc = "idle"
    /\ act_log[4] = << "STOP_THROTTLE_INCREASE", "settings" >>
    /\ lastDone["ti"] > 0
    /\ IsRegistered("td")
    /\ IsRegistered("br")

\* C26 (configuration errors keep the default): with an action-config file
\* that lacks the line of some action, or has it malformed, every action
\* executed later still finds a config: none is skipped.
NoActionSkipped ==
    \A i \in 1..Len(act_log) : act_log[i][2] # "skipped"

\* C27 (static friction hold): every integrator step taken with |v| < 0.01
\* and |thrust - drag| below the static friction, on the forces of that same
\* state, pushes acceleration 0, the velocity unchanged and the position
\* unchanged.
StaticFrictionHold ==
    [][(/\ DynIntegrate
        /\ Abs(velocity) < REST_VELOCITY
        /\ Abs(throttle * THRUST_PER_MILLE - Drag(velocity)) < STATIC_FRICTION
        /\ local_acceleration = Acceleration(throttle, brake, velocity))
       => /\ queue'[Len(queue) + 1].value = velocity
          /\ queue'[Len(queue) + 2].value = position
          /\ queue'[Len(queue) + 3].value = 0]_vars

\* C28 (throttle ramp): with the throttle-increase controller running and
\* enabled from tick 1 and no other writer, the throttle that k completed
\* ticks leave behind is min(1, k * 0.1 * dt), in every interleaving of the
\* controller and the state manager.
ThrottleRampExact ==
    committed.state.throttle =
        Min(MAX_THROTTLE, committed.tick * THROTTLE_INC_STEP)

\* What the three lists do when every action is executed in list order:
\* settings then start or stop for a Controller action, one stop-all, one
\* mode switch.
ActionListTrace ==
    << << "SWITCH_TO_AUTO_MODE", "mode" >>,
       << "START_THROTTLE_INCREASE", "settings" >>,
       << "START_THROTTLE_INCREASE", "start" >>,
       << "STOP_THROTTLE_INCREASE", "settings" >>,
       << "STOP_THROTTLE_INCREASE", "stop" >>,
       << "START_THROTTLE_DECREASE", "settings" >>,
       << "START_THROTTLE_DECREASE", "start" >>,
       << "START_BRAKE", "settings" >>,
       << "START_BRAKE", "start" >>,
       << "STOP_ALL_CONTROLLERS", "stop_all" >>,
       << "SWITCH_TO_MANUAL_MODE", "mode" >> >>

\* The flags hold the values the state_settings of action a name.
FlagsSetFor(a) ==
    CASE a = "START_THROTTLE_INCREASE" -> throttle_control_enabled
      [] a = "STOP_THROTTLE_INCREASE"  -> ~throttle_control_enabled
      [] a = "START_THROTTLE_DECREASE" -> throttle_control_enabled
      [] a = "START_BRAKE" -> brake_control_enabled /\ ~cruise_control_enabled
      [] OTHER -> TRUE

ListsNotInterleaved ==
    [][\A b \in BusWorkers :
          CbExec(b) =>
              \A c \in BusWorkers \ {b} : bus_pc[c] \notin ModeSteps]_vars

RepublishNoDeadlock ==
    /\ [](\A b \in BusWorkers : bus_pc[b] # "wait" => bus_mtx # b)
    /\ [](\A b \in BusWorkers :
            bus_pc[b] = "republish" ~> processed_events["START_BRAKE"] > 0)

\* The event published by the callback, and by nobody else, was processed.
RepublishedProcessed ==
    /\ total_events["START_BRAKE"] = 1
    /\ dropped_events["START_BRAKE"] = 0
    /\ processed_events["START_BRAKE"] = 1
    /\ processed_events["START_THROTTLE"] = 2

\* C33 (cruise_runway follows SharedState.target_speed): when the cruise
\* controller has finished a step, a target_speed above the velocity has
\* given throttle > 0 with brake = 0, a target_speed below it throttle = 0
\* with brake >= 0, and at most one of throttle and brake is non-zero.
CruiseFollowsTargetSpeed ==
    wpc["cr"] = "notify" =>
        /\ target_speed > velocity => throttle > 0 /\ brake = 0
        /\ target_speed < velocity => throttle = 0 /\ brake >= 0
        /\ throttle = 0 \/ brake = 0

\* C34 (pitch PID bounds): for any gains, any target and any interleaving
\* with resetIntegral, the stored integral term lies in [-10, 10] and
\* pitch_control_output in [-1, 1].
PitchPidBounded ==
    /\ integral_error >= -10000
    /\ integral_error <= 10000
    /\ pitch_control_output >= -1000
    /\ pitch_control_output <= 1000

\* A step whose integral term and output were both cut at their limits.
PitchBothLimited ==
    /\ wpc["ph"] = "notify"
    /\ pitch_local.ki * pitch_local.error > 10000 * INTEGRAL_LIMIT
    /\ integral_error = INTEGRAL_LIMIT
    /\ pitch_control_output = -MAX_CONTROL_OUTPUT

ShutdownCompletes ==
    (main_pc # "wait" /\ time_steps < MaxStep)
        ~> (main_pc = "done" \/ time_steps = MaxStep)

\* C37 (one thread per controller): while nothing stops a controller,
\* start() has created at most one thread for it, no further thread has
\* registered with the clock, and the program has not been terminated.
OneThreadPerController ==
    \A w \in Controllers :
        /\ starts[w] <= 1
        /\ extra_registered[w] = 0
        /\ ~aborted

\* C38 (rows carry the time of their tick): the k-th row the data recorder
\* writes after the initial row has time k * dt, and its values were loaded
\* while the clock's step count was k.
RowsCarryTickTime ==
    \A i \in 2..Len(samples) :
        /\ samples[i].time = i - 1
        /\ samples[i].step = samples[i].time

\* C39 (decrease wins): with the throttle-decrease controller running and
\* enabled, the throttle recorded at the close of a tick is never above the
\* throttle recorded at the close of the tick before, also while the
\* throttle-increase controller is still running.
ThrottleNeverIncreases ==
    [][committed'.state.throttle <= committed.state.throttle]_vars

====
